---- MODULE Spec2Model ----
(***************************************************************************)
(* Verification model of the NEMF photo review server (src/app/server.py): *)
(* the claim table (soft locks with timeout and override window), the      *)
(* review store with linked images and propagation, the priority-ordered   *)
(* navigation, and the request handlers that compose them.                 *)
(*                                                                         *)
(* Filenames are modelled by the integers 1..NumItems (their order is the  *)
(* string order of the filenames), users by 1..NumUsers, and time by whole *)
(* minutes.  claims[filename]['heartbeat'] and ['claimed_at'] are stored   *)
(* by the code as now.isoformat() and read back by                         *)
(* datetime.fromisoformat(), which returns the same instant, so the model  *)
(* keeps the instant itself.                                               *)
(***************************************************************************)
EXTENDS Integers, Sequences, FiniteSets, TLC

\* ------------------------------------------------------------------ bounds
NumUsers == 2
NumItems == 3
\* The number of requests a run of the server handles.
MaxRequests == 2

\* ------------------------------------------------------- program constants
CLAIM_TIMEOUT_MINUTES == 10
CLAIM_OVERRIDE_MINUTES == 30
\* The length add_to_view_history keeps of a user's history.
HISTORY_LIMIT == 100

\* The filenames the claim operations are called with: the two of a link
\* request ([filename, target]).
Files == {1, 2}
Users == 1..NumUsers
NoUser == 0
NoFile == 0

\* The filenames of review_data['images'], and the filenames a request can
\* name: those and one that is not in the store.
Items == 1..NumItems
Keys == 1..(NumItems + 1)

\* Instants at which requests arrive: every claim timeout up to the override
\* window, and every minute after it.  Both sides of the timeout (10 and 11
\* minutes apart) and of the override window (30 and 31 minutes) occur, also
\* for a claim that its holder keeps alive with heartbeats.
RequestTimes ==
    {t \in 0..(CLAIM_OVERRIDE_MINUTES + 1) :
        t % CLAIM_TIMEOUT_MINUTES = 0 \/ t > CLAIM_OVERRIDE_MINUTES}

\* The filename lists try_claim_multiple is called with: api_link_image
\* passes [filename, target]; one-element lists are included.
FileLists ==
    {<<f>> : f \in Files} \cup {<<f, g>> : f \in Files, g \in Files}

Range(s) == {s[i] : i \in 1..Len(s)}

VARIABLES
    now,      \* datetime.now(), in minutes
    claims,   \* the claims dict, as its set of (filename -> claim) entries
    pre,      \* the claims dict as the last call found it
    last,     \* the call that produced this state: its arguments and what it returned
    images,   \* review_data['images']: filename -> [priority, review]
    disk,     \* the images map of the snapshot save_data wrote last
    threads,  \* the request threads in flight: handler, arguments, position
    served,   \* the number of requests the server has handled
    before,   \* the store as the last request found it
    view_history,    \* view_history: username -> filenames, most recent first
    review_summary   \* review_data['review_summary'], as save_data wrote it last

vars == <<now, claims, pre, last, images, disk, threads, served, before,
          view_history, review_summary>>
storeVars == <<images, disk, threads, served, before, view_history, review_summary>>

\* ------------------------------------------------------------- claim table
\* One entry of the claims dict: claims[file] = {user, claimed_at, heartbeat}.
ClaimEntry(f, u, ca, hb) ==
    [file |-> f, user |-> u, claimed_at |-> ca, heartbeat |-> hb]

\* claims.get(filename): the entries under that key (empty = None).
claims_get(cl, f) == {c \in cl : c.file = f}

\* del claims[filename]
claims_del(cl, f) == {c \in cl : c.file # f}

\* claims[filename] = {'user': username, 'claimed_at': now, 'heartbeat': now}
new_claim(cl, f, u, t) == claims_del(cl, f) \cup {ClaimEntry(f, u, t, t)}

\* now - heartbeat > timedelta(minutes=CLAIM_TIMEOUT_MINUTES)
is_expired_at_timeout(t, heartbeat) == t - heartbeat >= CLAIM_TIMEOUT_MINUTES
is_expired(t, heartbeat) == t - heartbeat > CLAIM_TIMEOUT_MINUTES

\* The list `expired` that cleanup_expired_claims collects.
expired_files(cl, t) == {c.file : c \in {x \in cl : is_expired(t, x.heartbeat)}}

cleanup_expired_claims(cl, t) == {c \in cl : c.file \notin expired_files(cl, t)}

\* force or (now - claimed_at > timedelta(minutes=CLAIM_OVERRIDE_MINUTES))
can_override_at_window(force, t, claimed_at) ==
    force \/ (t - claimed_at >= CLAIM_OVERRIDE_MINUTES)
can_override(force, t, claimed_at) ==
    force \/ (t - claimed_at > CLAIM_OVERRIDE_MINUTES)

\* existing['heartbeat'] = now.isoformat()
refresh_resets_claimed_at(e, t) == [e EXCEPT !.heartbeat = t, !.claimed_at = t]
refresh_claim(e, t) == [e EXCEPT !.heartbeat = t]

\* The override branch of try_claim: claims[filename] = {...}.
override_keeps_holder(cl, f, u, t) == cl
override_claim(cl, f, u, t) == new_claim(cl, f, u, t)

\* get_claim(filename): cleanup, then claims.get(filename).
get_claim_without_cleanup(cl, t, f) == [claims |-> cl, ret |-> claims_get(cl, f)]
get_claim(cl, t, f) ==
    LET c1 == cleanup_expired_claims(cl, t)
    IN  [claims |-> c1, ret |-> claims_get(c1, f)]

\* try_claim(filename, username, force) -> (success, message, claimed_by).
\* The message names a user in two of its forms; `holder` is that user.
try_claim(cl, t, f, u, force) ==
    LET c1 == cleanup_expired_claims(cl, t)
        existing == claims_get(c1, f)
    IN  IF existing # {}
        THEN LET e == CHOOSE x \in existing : TRUE
             IN  IF e.user = u
                 THEN [claims |-> (c1 \ {e}) \cup {refresh_claim(e, t)},
                       ok |-> TRUE, msg |-> "Claim refreshed",
                       holder |-> NoUser, claimed_by |-> u]
                 ELSE IF can_override(force, t, e.claimed_at)
                 THEN [claims |-> override_claim(c1, f, u, t),
                       ok |-> TRUE, msg |-> "Claimed (was held by)",
                       holder |-> e.user, claimed_by |-> u]
                 ELSE [claims |-> c1,
                       ok |-> FALSE, msg |-> "Claimed by",
                       holder |-> e.user, claimed_by |-> e.user]
        ELSE [claims |-> new_claim(c1, f, u, t),
              ok |-> TRUE, msg |-> "Claimed",
              holder |-> NoUser, claimed_by |-> u]

\* filename in claims and claims[filename]['user'] == username
may_release_any_holder(cl, f, u) == claims_get(cl, f) # {}
may_release(cl, f, u) == \E c \in claims_get(cl, f) : c.user = u

\* release_claim(filename, username) -> bool.  No cleanup is run here.
release_claim(cl, f, u) ==
    IF may_release(cl, f, u)
    THEN [claims |-> claims_del(cl, f), ok |-> TRUE]
    ELSE [claims |-> cl, ok |-> FALSE]

\* The check loop of try_claim_multiple: the (filename, claimed_by) tuples
\* of the files held by another user within the override window.
RECURSIVE failed_claims(_, _, _, _)
failed_claims(cl, t, fs, u) ==
    IF fs = <<>> THEN <<>>
    ELSE LET existing == claims_get(cl, Head(fs))
             blocked == \E e \in existing :
                            /\ e.user # u
                            /\ t - e.claimed_at <= CLAIM_OVERRIDE_MINUTES
             holder == (CHOOSE e \in existing : TRUE).user
         IN  (IF blocked THEN <<<<Head(fs), holder>>>> ELSE <<>>)
                 \o failed_claims(cl, t, Tail(fs), u)

\* The commit loop of try_claim_multiple.  (try_claim keeps claimed_at of a
\* claim its holder asks for again; this loop does not.)
claim_all_refreshing(cl, t, fs, u) ==
    LET own == {c \in cl : c.file \in Range(fs) /\ c.user = u}
    IN  {c \in cl : c.file \notin Range(fs)}
            \cup {[c EXCEPT !.heartbeat = t] : c \in own}
            \cup {ClaimEntry(f, u, t, t) : f \in Range(fs) \ {c.file : c \in own}}
RECURSIVE claim_all(_, _, _, _)
claim_all(cl, t, fs, u) ==
    IF fs = <<>> THEN cl
    ELSE claim_all(new_claim(cl, Head(fs), u, t), t, Tail(fs), u)

\* What a denied try_claim_multiple leaves in the table.
denied_commits_claimable(cl, t, fs, u) ==
    LET bad == {x[1] : x \in Range(failed_claims(cl, t, fs, u))}
    IN  claim_all(cl, t, SelectSeq(fs, LAMBDA f : f \notin bad), u)
denied_table(cl, t, fs, u) == cl

\* try_claim_multiple(filenames, username) -> (success, failed_claims).
try_claim_multiple(cl, t, fs, u) ==
    LET c1 == cleanup_expired_claims(cl, t)
        failed == failed_claims(c1, t, fs, u)
    IN  IF failed # <<>>
        THEN [claims |-> denied_table(c1, t, fs, u), ok |-> FALSE, failed |-> failed]
        ELSE [claims |-> claim_all(c1, t, fs, u), ok |-> TRUE, failed |-> <<>>]

\* -------------------------------------------------------- the review store
\* review['status'] is None until a review sets it.
NoStatus == "None"
NoObservation == 0
\* The observation id an upload or a review stores in mo_observation_id.
AnObservation == 7
\* review['field_code'] stands for the descriptive fields (field_code, date,
\* location, location_id, name, name_id), which the handlers read and write
\* by statements of one form.
NoCode == "None"

\* The statuses the navigation treats as resolved.
RESOLVED_STATUSES == {"already_on_mo", "excluded", "approved", "corrected"}

\* review['reviewer']: None, a username, or '<user>:propagated_from:<file>'.
Reviewer(u, src) == [user |-> u, propagated_from |-> src]
NoReviewer == Reviewer(NoUser, NoFile)

\* The review record prepare_review_data.py creates (it has no
\* 'linked_images' key; review.get('linked_images', []) reads it as []).
FreshReview ==
    [status |-> NoStatus, field_code |-> NoCode, linked_images |-> <<>>,
     mo_observation_id |-> NoObservation, reviewer |-> NoReviewer]

Image(priority, review) == [priority |-> priority, review |-> review]

\* calculate_priority returns (priority_class, location_priority, flag).
DefaultPriority == <<0, 1, FALSE>>

FreshImages == [f \in Items |-> Image(DefaultPriority, FreshReview)]

\* The review_summary prepare_review_data.py writes: the total and zero
\* counts.  (It writes no 'excluded' key; save_data assigns the key before
\* it reads it.)
FreshSummary ==
    [total |-> NumItems, reviewed |-> 0, approved |-> 0, corrected |-> 0,
     excluded |-> 0, already_on_mo |-> 0]

\* Lines 410-414: the five counts are set to zero.
counts_kept(summary) == summary
counts_reset(summary) ==
    [summary EXCEPT !.reviewed = 0, !.approved = 0, !.corrected = 0,
                    !.excluded = 0, !.already_on_mo = 0]

\* Lines 417-427, for one image: a status that is set counts as reviewed and
\* for its own count.
count_status(summary, status) ==
    IF status = NoStatus THEN summary
    ELSE LET reviewed == [summary EXCEPT !.reviewed = @ + 1]
         IN  IF status = "approved" THEN [reviewed EXCEPT !.approved = @ + 1]
             ELSE IF status = "corrected" THEN [reviewed EXCEPT !.corrected = @ + 1]
             ELSE IF status = "excluded" THEN [reviewed EXCEPT !.excluded = @ + 1]
             ELSE IF status = "already_on_mo"
                  THEN [reviewed EXCEPT !.already_on_mo = @ + 1]
             ELSE reviewed

\* Line 416: the loop over review_data['images'].values().
RECURSIVE count_images(_, _, _)
count_images(summary, imgs, todo) ==
    IF todo = {} THEN summary
    ELSE LET f == CHOOSE g \in todo : TRUE
         IN  count_images(count_status(summary, imgs[f].review.status), imgs,
                          todo \ {f})

\* save_data(): the review_summary it leaves in review_data and writes with
\* the snapshot.
save_data(summary, imgs) == count_images(counts_reset(summary), imgs, DOMAIN imgs)

\* What a handler that answers with `code` leaves of the summary: the
\* handlers call save_data() on their way to 200 only.
summary_after(summary, imgs, code) ==
    IF code = 200 THEN save_data(summary, imgs) ELSE summary

\* view_history before any view: no user has an entry, and
\* view_history.get(username, []) reads [].
NoHistory == [u \in Users |-> <<>>]

\* Python's ordering of the tuples (tuple(priority), filename): lexicographic,
\* with False < True for the flag.
true_before_false(a, b) == a /\ (~b)
bool_lt(a, b) == (~a) /\ b
sort_key_lt(imgs, a, b) ==
    LET p == imgs[a].priority
        q == imgs[b].priority
    IN  \/ p[1] < q[1]
        \/ p[1] = q[1] /\ p[2] < q[2]
        \/ p[1] = q[1] /\ p[2] = q[2] /\ bool_lt(p[3], q[3])
        \/ p = q /\ a < b

\* sorted(keys, key=...): the smallest remaining key first.
RECURSIVE sorted_from(_, _)
sorted_from(imgs, S) ==
    IF S = {} THEN <<>>
    ELSE LET m == CHOOSE x \in S : \A y \in S \ {x} : sort_key_lt(imgs, x, y)
         IN  <<m>> \o sorted_from(imgs, S \ {m})

\* get_sorted_images()
get_sorted_images(imgs) == sorted_from(imgs, DOMAIN imgs)

\* sorted_images.index(f), 0-based (f is in the list).
index_of(seq, f) == (CHOOSE i \in 1..Len(seq) : seq[i] = f) - 1

\* Lines 445-448: sorted_images.index(current_filename), or 0 when index()
\* raises ValueError.
index_or_zero(seq, f) == IF f \in Range(seq) THEN index_of(seq, f) ELSE 0

\* Line 453: sorted_images[idx - 1] if idx > 0 else None.  (Without the test
\* Python reads sorted_images[-1], the last element.)
prev_wrapping(seq, idx) == IF idx > 0 THEN seq[idx] ELSE seq[Len(seq)]
prev_of(seq, idx) == IF idx > 0 THEN seq[idx] ELSE NoFile

\* Line 454: sorted_images[idx + 1] if idx < len(sorted_images) - 1 else None.
next_of(seq, idx) == IF idx < Len(seq) - 1 THEN seq[idx + 2] ELSE NoFile

\* get_navigation_context(current_filename).
get_navigation_context(imgs, current_filename) ==
    LET sorted_images == get_sorted_images(imgs)
        idx == index_or_zero(sorted_images, current_filename)
    IN  [current_index |-> idx, total |-> Len(sorted_images),
         prev |-> prev_of(sorted_images, idx),
         next |-> next_of(sorted_images, idx)]

\* The rotation sorted_images[start_index:] + sorted_images[:start_index].
rotation_without_wrap(seq, start) == SubSeq(seq, start + 1, Len(seq))
rotation(seq, start) ==
    SubSeq(seq, start + 1, Len(seq)) \o SubSeq(seq, 1, start)

\* status in ('already_on_mo', 'excluded', 'approved', 'corrected') or mo_obs_id
resolved(review) ==
    \/ review.status \in RESOLVED_STATUSES
    \/ review.mo_observation_id # NoObservation

\* not claim or claim['user'] == username, on the claim get_claim returned
claim_check_skipped(cl, t, f, u) == TRUE
claim_allows(cl, t, f, u) ==
    \A c \in get_claim(cl, t, f).ret : c.user = u

\* The filter `f != current_filename`, applied when current_filename is given.
without_current(seq, cur) ==
    IF cur # NoFile THEN SelectSeq(seq, LAMBDA f : f # cur) ELSE seq

\* The filter `f not in exclude_history`, applied when the list is not empty.
without_excluded(seq, excl) ==
    IF excl # {} THEN SelectSeq(seq, LAMBDA f : f \notin excl) ELSE seq

\* get_next_unreviewed_for_user(username, current_filename, exclude_history):
\* the filename returned (NoFile for None) and the claims dict afterwards
\* (get_claim, called for each unresolved candidate, purges expired claims).
get_next_unreviewed_for_user(imgs, cl, t, u, cur, excl) ==
    LET sorted_images == get_sorted_images(imgs)
        start_index == IF cur # NoFile /\ cur \in Range(sorted_images)
                       THEN index_of(sorted_images, cur) + 1
                       ELSE 0
        search_list == without_excluded(
                           without_current(rotation(sorted_images, start_index), cur),
                           excl)
        unresolved == SelectSeq(search_list, LAMBDA f : ~resolved(imgs[f].review))
        hits == SelectSeq(unresolved, LAMBDA f : claim_allows(cl, t, f, u))
    IN  [found |-> IF hits # <<>> THEN Head(hits) ELSE NoFile,
         claims |-> IF unresolved # <<>> THEN cleanup_expired_claims(cl, t) ELSE cl]

\* ------------------------------------------------------ request handlers
\* The JSON body of a review request: each key is present (a one-element
\* set holding its value) or absent (the empty set), as data.get(key,
\* default) distinguishes them.
ReviewData(status, linked_images, mo_observation_id) ==
    [status |-> status, field_code |-> {}, linked_images |-> linked_images,
     mo_observation_id |-> mo_observation_id]

\* The same body with a field_code key.
with_field_code(data, code) == [data EXCEPT !.field_code = {code}]

\* data.get(key, default)
data_get(field, default) ==
    IF field = {} THEN default ELSE CHOOSE v \in field : TRUE

\* linked_links.append(filename) when filename is not in the list.
append_always(links, f) == Append(links, f)
append_if_absent(links, f) ==
    IF f \in Range(links) THEN links ELSE Append(links, f)

\* list.remove(x) when x is in the list: the first occurrence goes.
remove_nothing(links, f) == links
RECURSIVE remove_first(_, _)
remove_first(links, f) ==
    IF links = <<>> THEN <<>>
    ELSE IF Head(links) = f THEN Tail(links)
    ELSE <<Head(links)>> \o remove_first(Tail(links), f)

\* Lines 668-684 of api_review_image: the review record after the update.
updated_review(review, data, u) ==
    [review EXCEPT
        !.status = data_get(data.status, review.status),
        !.field_code = data_get(data.field_code, review.field_code),
        !.linked_images = data_get(data.linked_images, review.linked_images),
        !.mo_observation_id = data_get(data.mo_observation_id, review.mo_observation_id),
        !.reviewer = Reviewer(u, NoFile)]

\* Lines 688-695: the reviewed file is appended to the list of every linked
\* image that is in the store and does not list it yet.
back_link_unless_missing(imgs, f, links) ==
    IF Range(links) \subseteq DOMAIN imgs
    THEN [g \in DOMAIN imgs |->
             IF g \in Range(links)
             THEN [imgs[g] EXCEPT !.review.linked_images =
                      append_if_absent(imgs[g].review.linked_images, f)]
             ELSE imgs[g]]
    ELSE imgs
RECURSIVE back_link(_, _, _)
back_link(imgs, f, links) ==
    IF links = <<>> THEN imgs
    ELSE LET g == Head(links)
             next == IF g \in DOMAIN imgs
                     THEN [imgs EXCEPT ![g].review.linked_images =
                               append_if_absent(imgs[g].review.linked_images, f)]
                     ELSE imgs
         IN  back_link(next, f, Tail(links))

\* Lines 741-744: the status a target receives from a source of this status.
propagated_status_as_is(status) == status
propagated_status(status) ==
    IF status \in {"already_on_mo", "excluded"} THEN status ELSE "approved"

\* propagate_review_data(source_filename, target_filename, source_review, username)
propagate_status_only(imgs, src, target, u) ==
    IF imgs[target].review.status # NoStatus
    THEN imgs
    ELSE [imgs EXCEPT ![target].review.status =
             propagated_status(imgs[src].review.status)]
propagate_review_data(imgs, src, target, u) ==
    LET source_review == imgs[src].review
        target_review == imgs[target].review
    IN  IF target_review.status # NoStatus
        THEN imgs
        ELSE [imgs EXCEPT ![target].review =
                 [target_review EXCEPT
                     !.field_code = source_review.field_code,
                     !.mo_observation_id = source_review.mo_observation_id,
                     !.status = propagated_status(source_review.status),
                     !.reviewer = Reviewer(u, src),
                     !.linked_images = append_if_absent(target_review.linked_images, src)]]

\* Lines 698-701: propagation to every linked image that is in the store.
RECURSIVE propagate_all(_, _, _, _)
propagate_all(imgs, f, links, u) ==
    IF links = <<>> THEN imgs
    ELSE LET g == Head(links)
             next == IF g \in DOMAIN imgs
                     THEN propagate_review_data(imgs, f, g, u)
                     ELSE imgs
         IN  propagate_all(next, f, Tail(links), u)

\* Lines 698-701, linked_images being the list read at line 687.
propagate_if_resolved(imgs, f, linked_images, u) ==
    IF imgs[f].review.status \in RESOLVED_STATUSES /\ linked_images # <<>>
    THEN propagate_all(imgs, f, linked_images, u)
    ELSE imgs

\* Lines 704-708: release the claim on the file and on every linked image.
release_first_only(cl, fs, u) == release_claim(cl, Head(fs), u).claims
RECURSIVE release_all(_, _, _)
release_all(cl, fs, u) ==
    IF fs = <<>> THEN cl
    ELSE release_all(release_claim(cl, Head(fs), u).claims, Tail(fs), u)

\* Line 659: claim and claim['user'] != username
claim_ignored(claim, u) == FALSE
claimed_by_other(claim, u) == \E c \in claim : c.user # u

\* Line 824: not claim or claim['user'] != username
no_claim_accepted(claim, u) == \E c \in claim : c.user # u
not_claimed_by_caller(claim, u) == ~(\E c \in claim : c.user = u)

\* Line 772: try_claim_multiple([filename, target_filename], username)
claim_source_only(cl, t, f, target, u) == try_claim_multiple(cl, t, <<f>>, u)
claim_both(cl, t, f, target, u) == try_claim_multiple(cl, t, <<f, target>>, u)

\* POST /api/image/<filename>/review: the store, the claims, the snapshot
\* on disk and the HTTP status after the request.
api_review_image(imgs, cl, dsk, t, f, data, u) ==
    IF f \notin DOMAIN imgs
    THEN [images |-> imgs, claims |-> cl, disk |-> dsk, code |-> 404]
    ELSE LET claim == get_claim(cl, t, f)
         IN  IF claimed_by_other(claim.ret, u)
             THEN [images |-> imgs, claims |-> claim.claims, disk |-> dsk, code |-> 409]
             ELSE LET written == [imgs EXCEPT ![f].review =
                                      updated_review(imgs[f].review, data, u)]
                      linked_images == written[f].review.linked_images
                      linked == back_link(written, f, linked_images)
                      propagated == propagate_if_resolved(linked, f, linked_images, u)
                      released == release_all(claim.claims, <<f>> \o linked_images, u)
                  IN  [images |-> propagated, claims |-> released,
                       disk |-> propagated, code |-> 200]

\* The claim table a 404 of link or unlink leaves: the lookups come before
\* try_claim_multiple and get_claim.
not_found_table_purged(cl, t) == cleanup_expired_claims(cl, t)
not_found_table(cl, t) == cl

\* POST /api/link/<filename> with {target}.
api_link_image(imgs, cl, dsk, t, f, target, u) ==
    IF target = NoFile
    THEN [images |-> imgs, claims |-> cl, disk |-> dsk, code |-> 400]
    ELSE IF f \notin DOMAIN imgs \/ target \notin DOMAIN imgs
    THEN [images |-> imgs, claims |-> not_found_table(cl, t), disk |-> dsk, code |-> 404]
    ELSE LET r == claim_both(cl, t, f, target, u)
         IN  IF ~r.ok
             THEN [images |-> imgs, claims |-> r.claims, disk |-> dsk, code |-> 409]
             ELSE LET src == [imgs EXCEPT ![f].review.linked_images =
                                  append_if_absent(imgs[f].review.linked_images, target)]
                      both == [src EXCEPT ![target].review.linked_images =
                                  append_if_absent(src[target].review.linked_images, f)]
                  IN  [images |-> both, claims |-> r.claims, disk |-> both, code |-> 200]

\* POST /api/unlink/<filename> with {target}.
api_unlink_image(imgs, cl, dsk, t, f, target, u) ==
    IF target = NoFile
    THEN [images |-> imgs, claims |-> cl, disk |-> dsk, code |-> 400]
    ELSE IF f \notin DOMAIN imgs \/ target \notin DOMAIN imgs
    THEN [images |-> imgs, claims |-> not_found_table(cl, t), disk |-> dsk, code |-> 404]
    ELSE LET claim == get_claim(cl, t, f)
         IN  IF not_claimed_by_caller(claim.ret, u)
             THEN [images |-> imgs, claims |-> claim.claims, disk |-> dsk, code |-> 403]
             ELSE LET src == [imgs EXCEPT ![f].review.linked_images =
                                  remove_first(imgs[f].review.linked_images, target)]
                      both == [src EXCEPT ![target].review.linked_images =
                                  remove_first(src[target].review.linked_images, f)]
                  IN  [images |-> both, claims |-> claim.claims, disk |-> both, code |-> 200]

\* ---------------------------------------------------------- the view history
\* add_to_view_history(filename, username): history.remove(filename) when
\* the filename is in the list, history.insert(0, filename), and
\* history[:100] when the list has become longer than 100.
add_without_remove(vh, f, u) ==
    LET inserted == <<f>> \o vh[u]
    IN  [vh EXCEPT ![u] = IF Len(inserted) > HISTORY_LIMIT
                          THEN SubSeq(inserted, 1, HISTORY_LIMIT)
                          ELSE inserted]
add_to_view_history(vh, f, u) ==
    LET history == vh[u]
        first == CHOOSE i \in 1..Len(history) :
                     history[i] = f /\ \A j \in 1..(i - 1) : history[j] # f
        removed == IF f \in Range(history)
                   THEN SubSeq(history, 1, first - 1)
                            \o SubSeq(history, first + 1, Len(history))
                   ELSE history
        inserted == <<f>> \o removed
    IN  [vh EXCEPT ![u] = IF Len(inserted) > HISTORY_LIMIT
                          THEN SubSeq(inserted, 1, HISTORY_LIMIT)
                          ELSE inserted]

\* POST /api/mo/create_new with {filename, field_code, date, ...}.  The
\* upstream repository answers each call of the client or raises MOAPIError:
\* upstream.linked_ok is the number of linked images whose upload and
\* attachment succeed before a call raises (-1 when the upload of the main
\* image or create_observation raises; a number not below the length of the
\* list when none does), and upstream.slip is how create_field_slip ends:
\* "created", "conflict" (MOAPIConflictError, answered 409) or "unavailable"
\* (another MOAPIError, which is logged).  Lines 1591-1596 write the
\* observation into the review record of each linked image right after its
\* upload; lines 1619-1628 write the main image, release the claim and call
\* save_data().
RECURSIVE upload_linked(_, _, _)
upload_linked(imgs, links, ok) ==
    IF links = <<>> THEN [images |-> imgs, raised |-> FALSE]
    ELSE IF Head(links) \notin DOMAIN imgs THEN upload_linked(imgs, Tail(links), ok)
    ELSE IF ok = 0 THEN [images |-> imgs, raised |-> TRUE]
    ELSE upload_linked(
             [imgs EXCEPT ![Head(links)].review.mo_observation_id = AnObservation],
             Tail(links), ok - 1)

api_mo_create_new(imgs, cl, dsk, t, f, u, upstream) ==
    IF f = NoFile
    THEN [images |-> imgs, claims |-> cl, disk |-> dsk, code |-> 400]
    ELSE IF f \notin DOMAIN imgs
    THEN [images |-> imgs, claims |-> cl, disk |-> dsk, code |-> 404]
    ELSE LET claim == get_claim(cl, t, f)
         IN  IF \E c \in claim.ret : c.user # u
             THEN [images |-> imgs, claims |-> claim.claims, disk |-> dsk, code |-> 409]
             ELSE IF upstream.linked_ok < 0
             THEN [images |-> imgs, claims |-> claim.claims, disk |-> dsk, code |-> 500]
             ELSE LET linked == upload_linked(imgs, imgs[f].review.linked_images,
                                              upstream.linked_ok)
                      main == [linked.images EXCEPT
                                  ![f].review.mo_observation_id = AnObservation]
                  IN  IF linked.raised
                      THEN [images |-> linked.images, claims |-> claim.claims,
                            disk |-> dsk, code |-> 500]
                      ELSE IF upstream.slip = "conflict"
                      THEN [images |-> linked.images, claims |-> claim.claims,
                            disk |-> dsk, code |-> 409]
                      ELSE [images |-> main,
                            claims |-> release_claim(claim.claims, f, u).claims,
                            disk |-> main, code |-> 200]

\* Lines 570-593 of api_navigation: the index of the current filename in
\* the history, and the loop over range(current_index - 1, -1, -1), which
\* stops at the first filename that is in the store and not resolved.
history_scan_from_front(imgs, history, f) ==
    IF f \notin Range(history) THEN NoFile
    ELSE LET current_index == index_of(history, f)
             ahead == {i \in 0..(current_index - 1) :
                          /\ history[i + 1] \in DOMAIN imgs
                          /\ ~resolved(imgs[history[i + 1]].review)}
         IN  IF ahead = {} THEN NoFile
             ELSE history[(CHOOSE i \in ahead : \A j \in ahead : i <= j) + 1]
next_unreviewed_in_history(imgs, history, f) ==
    IF f \notin Range(history) THEN NoFile
    ELSE LET current_index == index_of(history, f)
             ahead == {i \in 0..(current_index - 1) :
                          /\ history[i + 1] \in DOMAIN imgs
                          /\ ~resolved(imgs[history[i + 1]].review)}
         IN  IF ahead = {} THEN NoFile
             ELSE history[(CHOOSE i \in ahead : \A j \in ahead : i >= j) + 1]

\* Line 600: next_unreviewed_in_history or next_unreviewed_priority.
prefer_priority(in_history, priority) ==
    IF priority # NoFile THEN priority ELSE in_history
prefer_history(in_history, priority) ==
    IF in_history # NoFile THEN in_history ELSE priority

\* GET /api/navigation/<filename>: the two candidates, the filename
\* answered as next_unreviewed, and the claims dict afterwards.
api_navigation(imgs, cl, vh, t, f, u) ==
    LET in_history == next_unreviewed_in_history(imgs, vh[u], f)
        priority == get_next_unreviewed_for_user(imgs, cl, t, u, f, {})
    IN  [in_history |-> in_history, priority |-> priority.found,
         next_unreviewed |-> prefer_history(in_history, priority.found),
         claims |-> priority.claims]

\* ------------------------------------------------------ the call records
\* What is kept of the request served before the last one, and its instant.
NoPrior ==
    [op |-> "none", file |-> NoFile, user |-> NoUser, ok |-> FALSE,
     holder |-> NoUser, at |-> 0]

Prior(call, t) ==
    [op |-> call.op, file |-> call.file, user |-> call.user, ok |-> call.ok,
     holder |-> call.holder, at |-> t]

NoCall ==
    [op |-> "none", file |-> NoFile, files |-> <<>>, user |-> NoUser,
     force |-> FALSE, ok |-> FALSE, msg |-> "", holder |-> NoUser,
     claimed_by |-> NoUser, failed |-> <<>>, ret |-> {},
     target |-> NoFile, exclude |-> {}, found |-> NoFile, code |-> 0,
     data |-> ReviewData({}, {}, {}),
     nav |-> [current_index |-> 0, total |-> 0, prev |-> NoFile, next |-> NoFile],
     in_history |-> NoFile, priority |-> NoFile, summary |-> FreshSummary,
     prior |-> NoPrior]

\* --------------------------------------------- claim manager: the actions
ClaimsInit ==
    /\ now = 0
    /\ claims = {}
    /\ pre = {}
    /\ last = NoCall
    /\ images = FreshImages
    /\ disk = FreshImages
    /\ threads = <<>>
    /\ served = 0
    /\ before = images
    /\ view_history = NoHistory
    /\ review_summary = save_data(FreshSummary, images)

\* Time passes between two requests.
Tick ==
    \E t \in RequestTimes :
        /\ t > now
        /\ now' = t
        /\ last' = NoCall
        /\ pre' = claims
        /\ UNCHANGED <<claims, storeVars>>

CallTryClaim ==
    \E f \in Files, u \in Users, force \in BOOLEAN :
        LET r == try_claim(claims, now, f, u, force)
        IN  /\ claims' = r.claims
            /\ pre' = claims
            /\ last' = [NoCall EXCEPT !.op = "try_claim", !.file = f, !.user = u,
                            !.force = force, !.ok = r.ok, !.msg = r.msg,
                            !.holder = r.holder, !.claimed_by = r.claimed_by]
            /\ UNCHANGED <<now, storeVars>>

CallGetClaim ==
    \E f \in Files :
        LET r == get_claim(claims, now, f)
        IN  /\ claims' = r.claims
            /\ pre' = claims
            /\ last' = [NoCall EXCEPT !.op = "get_claim", !.file = f, !.ok = TRUE,
                            !.ret = r.ret]
            /\ UNCHANGED <<now, storeVars>>

CallReleaseClaim ==
    \E f \in Files, u \in Users :
        LET r == release_claim(claims, f, u)
        IN  /\ claims' = r.claims
            /\ pre' = claims
            /\ last' = [NoCall EXCEPT !.op = "release_claim", !.file = f,
                            !.user = u, !.ok = r.ok]
            /\ UNCHANGED <<now, storeVars>>

CallTryClaimMultiple ==
    \E fs \in FileLists, u \in Users :
        LET r == try_claim_multiple(claims, now, fs, u)
        IN  /\ claims' = r.claims
            /\ pre' = claims
            /\ last' = [NoCall EXCEPT !.op = "try_claim_multiple", !.files = fs,
                            !.user = u, !.ok = r.ok, !.failed = r.failed]
            /\ UNCHANGED <<now, storeVars>>

ClaimsNext ==
    \/ Tick
    \/ CallTryClaim
    \/ CallGetClaim
    \/ CallReleaseClaim
    \/ CallTryClaimMultiple

SpecClaims == ClaimsInit /\ [][ClaimsNext]_vars

\* ------------------------------------------- claim manager: the properties
\* Whether an entry is live (not expired) at instant t.
Live(e, t) == t - e.heartbeat <= CLAIM_TIMEOUT_MINUTES

\* The users recorded as holder of file f in table cl.
Holders(cl, f) == {c.user : c \in {x \in cl : x.file = f}}

\* C1: in every reachable state every item has at most one user holding a
\* live claim on it, and after a granted acquire (single or multiple) by user
\* u no other user is still recorded as holder of the item(s) acquired.
C1_OneHolderPerItem ==
    /\ \A f \in Files :
           Cardinality({c.user : c \in {x \in claims : x.file = f /\ Live(x, now)}}) <= 1
    /\ (last.op = "try_claim" /\ last.ok) => Holders(claims, last.file) = {last.user}
    /\ (last.op = "try_claim_multiple" /\ last.ok) =>
           \A f \in Range(last.files) : Holders(claims, f) = {last.user}

\* An acquire was granted by taking the claim over from another holder.
C1_Witness ==
    /\ last.op = "try_claim"
    /\ last.ok
    /\ last.holder # NoUser
    /\ Holders(pre, last.file) = {last.holder}

\* C2 as stated: a denied acquire_multiple leaves the claim table exactly as
\* the call found it, expired entries included.
C2_DeniedTableIdentical ==
    (last.op = "try_claim_multiple" /\ ~last.ok) => claims = pre

\* C2 as amended: a denied acquire_multiple leaves exactly the entries of the
\* pre-call table that are not expired, each with the holder, claimed_at and
\* heartbeat it had; no entry is added or reassigned.
C2_DeniedTablePurgedOnly ==
    (last.op = "try_claim_multiple" /\ ~last.ok) =>
        claims = {c \in pre : Live(c, now)}

\* A denied acquire_multiple that found an expired entry in the table.
C2_Witness ==
    /\ last.op = "try_claim_multiple"
    /\ ~last.ok
    /\ \E c \in pre : ~Live(c, now)
    /\ Len(last.files) = 2

\* C7: a claim whose heartbeat is older than the claim timeout is treated as
\* absent without any release: an acquire of the item by another user is
\* granted as on an unclaimed item and peek reports no holder; while the
\* timeout has not elapsed on a claim that was never refreshed, the other
\* user's (unforced) acquire is denied naming the holder and peek reports it.
C7_ExpiredClaimIsAbsent ==
    \A e \in pre :
        /\ (last.op = "try_claim" /\ last.file = e.file /\ last.user # e.user) =>
               /\ ~Live(e, now) =>
                      /\ last.ok
                      /\ last.msg = "Claimed"
                      /\ {c \in claims : c.file = e.file}
                             = {ClaimEntry(e.file, last.user, now, now)}
               /\ (Live(e, now) /\ e.claimed_at = e.heartbeat /\ ~last.force) =>
                      /\ ~last.ok
                      /\ last.holder = e.user
                      /\ last.claimed_by = e.user
                      /\ e \in claims
        /\ (last.op = "get_claim" /\ last.file = e.file) =>
               last.ret = IF Live(e, now) THEN {e} ELSE {}
        /\ (last.op \in {"try_claim", "get_claim", "try_claim_multiple"}
                /\ ~Live(e, now)) => e \notin claims

\* User B was granted an item whose holder A let the claim time out.
C7_Witness ==
    /\ last.op = "try_claim"
    /\ last.ok
    /\ ~last.force
    /\ \E e \in pre : e.file = last.file /\ e.user # last.user /\ ~Live(e, now)

\* C8: an acquire by another user than the holder of a live claim is denied,
\* naming the holder, when it is not forced and now - claimed_at does not
\* exceed the override window; when it is forced or the window is exceeded
\* the claim is reassigned to the caller with claimed_at = heartbeat = now,
\* the call is granted and its message names the dispossessed holder.
C8_OverrideWindow ==
    \A e \in pre :
        (last.op = "try_claim" /\ last.file = e.file /\ last.user # e.user
             /\ Live(e, now)) =>
            IF last.force \/ now - e.claimed_at > CLAIM_OVERRIDE_MINUTES
            THEN /\ last.ok
                 /\ last.msg = "Claimed (was held by)"
                 /\ last.holder = e.user
                 /\ last.claimed_by = last.user
                 /\ {c \in claims : c.file = e.file}
                        = {ClaimEntry(e.file, last.user, now, now)}
            ELSE /\ ~last.ok
                 /\ last.msg = "Claimed by"
                 /\ last.holder = e.user
                 /\ last.claimed_by = e.user
                 /\ {c \in claims : c.file = e.file} = {e}

\* An unforced acquire took over a live claim older than the override window.
C8_Witness ==
    /\ last.op = "try_claim"
    /\ ~last.force
    /\ last.ok
    /\ \E e \in pre :
           /\ e.file = last.file
           /\ e.user # last.user
           /\ Live(e, now)
           /\ now - e.claimed_at > CLAIM_OVERRIDE_MINUTES

\* C9: an acquire of an item with no live claim creates the claim with holder
\* = caller and claimed_at = heartbeat = now and is granted; an acquire by the
\* holder is answered "refreshed" and changes the heartbeat of that claim
\* only: holder and claimed_at stay, and the live claims of the other items
\* are what they were (entries that had expired are purged by lazy expiry).
C9_GrantAndRefresh ==
    last.op = "try_claim" =>
        LET f == last.file
            live == {e \in pre : e.file = f /\ Live(e, now)}
        IN  /\ live = {} =>
                   /\ last.ok
                   /\ last.msg = "Claimed"
                   /\ last.claimed_by = last.user
                   /\ {c \in claims : c.file = f}
                          = {ClaimEntry(f, last.user, now, now)}
            /\ \A e \in live :
                   e.user = last.user =>
                       /\ last.ok
                       /\ last.msg = "Claim refreshed"
                       /\ {c \in claims : c.file = f}
                              = {ClaimEntry(f, e.user, e.claimed_at, now)}
            /\ {c \in claims : c.file # f}
                   = {c \in pre : c.file # f /\ Live(c, now)}

\* The holder refreshed a claim made earlier, while another item was claimed.
C9_Witness ==
    /\ last.op = "try_claim"
    /\ last.msg = "Claim refreshed"
    /\ \E c \in claims : c.file = last.file /\ c.claimed_at < c.heartbeat
    /\ \E c \in claims : c.file # last.file

\* C10: release(item, user) removes the claim and returns true exactly when
\* the table records user as the holder of item; otherwise (item unclaimed or
\* held by another user) it returns false and the table is unchanged.
C10_ReleaseOnlyByHolder ==
    last.op = "release_claim" =>
        LET held == \E e \in pre : e.file = last.file /\ e.user = last.user
        IN  /\ last.ok = held
            /\ claims = IF held THEN {c \in pre : c.file # last.file} ELSE pre

\* A release by a user who is not the holder of the claimed item.
C10_Witness ==
    /\ last.op = "release_claim"
    /\ ~last.ok
    /\ \E e \in pre : e.file = last.file /\ e.user # last.user

\* C11 as stated: peek(item) leaves the claim table exactly as it was before
\* the call.
C11_PeekTableIdentical ==
    (last.op = "get_claim") => claims = pre

\* C11 as amended: peek(item) returns the live claim on the item (or none),
\* grants, reassigns and refreshes nothing, and leaves exactly the entries of
\* the pre-call table that are not expired; the store and its snapshot are
\* the ones the server was loaded with.
C11_PeekPurgesOnly ==
    (last.op = "get_claim") =>
        /\ claims = {c \in pre : Live(c, now)}
        /\ last.ret = {c \in pre : c.file = last.file /\ Live(c, now)}
        /\ images = FreshImages
        /\ disk = FreshImages

\* A peek at an item with a live claim, in a table that also held an expired
\* entry.
C11_Witness ==
    /\ last.op = "get_claim"
    /\ last.ret # {}
    /\ \E c \in pre : ~Live(c, now)

\* C28: lazy expiry is applied before every claim operation, release
\* included: a release(item, user) issued when user holds no live claim on
\* the item (its last heartbeat is older than the claim timeout) returns
\* false, and after any acquire, release, peek or acquire_multiple call the
\* table holds no expired claim.
C28_LazyExpiryBeforeEveryOperation ==
    /\ (last.op = "release_claim"
           /\ ~\E e \in pre : e.file = last.file /\ e.user = last.user /\ Live(e, now))
          => ~last.ok
    /\ last.op \in {"try_claim", "get_claim", "release_claim", "try_claim_multiple"}
          => \A c \in claims : Live(c, now)

\* Another user holds a claim on f that acquire_multiple may not take: it is
\* live and was claimed within the override window.
HeldByOther(f, u) ==
    \E e \in pre :
        /\ e.file = f
        /\ e.user # u
        /\ Live(e, now)
        /\ now - e.claimed_at <= CLAIM_OVERRIDE_MINUTES

\* C29: acquire_multiple(items, user) succeeds exactly when no item of the
\* list is held by another user within the override window; when it
\* succeeds every item of the list is claimed by user with claimed_at =
\* heartbeat = now, also the items user held already and the items taken
\* from a holder whose claim was older than the override window, and the
\* live claims on items outside the list are unchanged.
C29_AcquireMultipleGrantsAll ==
    (last.op = "try_claim_multiple") =>
        LET listed == Range(last.files)
        IN  /\ last.ok <=> ~\E f \in listed : HeldByOther(f, last.user)
            /\ last.ok =>
                   /\ \A f \in listed :
                          {c \in claims : c.file = f}
                              = {ClaimEntry(f, last.user, now, now)}
                   /\ {c \in claims : c.file \notin listed}
                          = {c \in pre : c.file \notin listed /\ Live(c, now)}

\* A grant of two items, one that the user held already since an earlier
\* instant and one taken from a live holder whose claim was older than the
\* override window.
C29_Witness ==
    /\ last.op = "try_claim_multiple"
    /\ last.ok
    /\ \E e \in pre :
           /\ e.file \in Range(last.files)
           /\ e.user = last.user
           /\ Live(e, now)
           /\ e.claimed_at < now
    /\ \E e \in pre :
           /\ e.file \in Range(last.files)
           /\ e.user # last.user
           /\ Live(e, now)
           /\ now - e.claimed_at > CLAIM_OVERRIDE_MINUTES


\* ------------------------------------------------------------- navigation
\* Priority tuples of the store: all tied but the last item, which is in a
\* later class; classes against the filename order; the flag as the only
\* difference.
PriorityAssignments ==
    { [f \in Items |-> IF f = NumItems THEN <<2, 1, FALSE>> ELSE DefaultPriority],
      [f \in Items |-> <<NumItems - f, 1, FALSE>>],
      [f \in Items |-> <<0, 1, f % 2 = 1>>] }

\* What one item can be when a navigation request arrives at NavNow, 11
\* minutes past: resolved by a status or by an uploaded observation (and not
\* claimed: a review releases the claim), or not reviewed and then unclaimed
\* (holder NoUser), claimed live by some user, or left with an expired claim
\* of user 1 that nothing has purged yet (heartbeat 0).
NavNow == CLAIM_TIMEOUT_MINUTES + 1
NavItemKinds ==
    {<<"approved", NoUser, NavNow>>, <<"uploaded", NoUser, NavNow>>}
        \cup {<<"fresh", u, NavNow>> : u \in Users \cup {NoUser}}
        \cup {<<"fresh", 1, 0>>}

NavReview(kind) ==
    IF kind[1] = "approved"
    THEN [FreshReview EXCEPT !.status = "approved", !.reviewer = Reviewer(1, NoFile)]
    ELSE IF kind[1] = "uploaded"
    THEN [FreshReview EXCEPT !.mo_observation_id = AnObservation]
    ELSE FreshReview

NavInit ==
    /\ now = NavNow
    /\ \E pr \in PriorityAssignments, kinds \in [Items -> NavItemKinds] :
           /\ images = [f \in Items |-> Image(pr[f], NavReview(kinds[f]))]
           /\ claims = {ClaimEntry(f, kinds[f][2], kinds[f][3], kinds[f][3]) :
                            f \in {g \in Items : kinds[g][2] # NoUser}}
    /\ pre = claims
    /\ last = NoCall
    /\ disk = images
    /\ threads = <<>>
    /\ served = 0
    /\ before = images
    /\ view_history = NoHistory
    /\ review_summary = save_data(FreshSummary, images)

\* The exclude lists a navigation request passes: none, or one filename.
ExcludeChoices == {{}} \cup {{f} : f \in Items}

\* /api/next-unreviewed and /api/navigation call get_next_unreviewed_for_user.
\* One request is taken per drawn state: the state a request leaves is a
\* drawn state again (the one without the expired claims).
CallNextUnreviewed ==
    \E u \in Users, cur \in Keys \cup {NoFile}, excl \in ExcludeChoices :
        LET r == get_next_unreviewed_for_user(images, claims, now, u, cur, excl)
        IN  /\ last.op = "none"
            /\ claims' = r.claims
            /\ pre' = claims
            /\ last' = [NoCall EXCEPT !.op = "next_unreviewed", !.user = u,
                            !.file = cur, !.exclude = excl, !.found = r.found,
                            !.ok = TRUE]
            /\ UNCHANGED <<now, storeVars>>

NavNext == CallNextUnreviewed

SpecNav == NavInit /\ [][NavNext]_vars

\* ------------------------------------------------ navigation: the properties
\* The item is resolved: a status of the terminal set, or an upstream
\* observation reference.
IsResolvedItem(f) ==
    \/ images[f].review.status = "approved"
    \/ images[f].review.status = "corrected"
    \/ images[f].review.status = "excluded"
    \/ images[f].review.status = "already_on_mo"
    \/ images[f].review.mo_observation_id # NoObservation

\* A user other than u held a live claim on f when the request arrived.
LiveClaimedByOther(f, u) ==
    \E c \in pre : c.file = f /\ c.user # u /\ Live(c, now)

\* C5: the item next_unresolved(user, current, exclude) returns is never
\* current, never a key in exclude, never a resolved item and never an item
\* on which a different user holds a live claim.
C5_NextUnresolvedSafe ==
    (last.op = "next_unreviewed" /\ last.found # NoFile) =>
        /\ last.found \in Items
        /\ last.found # last.file
        /\ last.found \notin last.exclude
        /\ ~IsResolvedItem(last.found)
        /\ ~LiveClaimedByOther(last.found, last.user)

\* A request with a current item and an exclude list returned an item while
\* the store held a resolved item and an item live-claimed by another user.
C5_Witness ==
    /\ last.op = "next_unreviewed"
    /\ last.found # NoFile
    /\ last.file \in Items
    /\ last.exclude # {}
    /\ \E f \in Items : IsResolvedItem(f)
    /\ \E f \in Items : LiveClaimedByOther(f, last.user)

\* Canonical order: ascending by (priority value, item key).
CanonicalBefore(a, b) ==
    LET p == images[a].priority
        q == images[b].priority
        rank(flag) == IF flag THEN 1 ELSE 0
        differ == {i \in 1..3 : p[i] # q[i]}
        first == CHOOSE i \in differ : \A j \in differ : i <= j
    IN  IF differ = {} THEN a < b
        ELSE IF first = 3 THEN rank(p[3]) < rank(q[3])
        ELSE p[first] < q[first]

Position(f) == Cardinality({g \in Items : CanonicalBefore(g, f)})

\* How far after current item f comes when the canonical order is walked
\* from just after current and wrapped at its end (from the beginning when
\* there is no current item in the store).
ScanDistance(f, cur) ==
    LET start == IF cur \in Items THEN Position(cur) + 1 ELSE 0
    IN  (Position(f) - start) % NumItems

Eligible(f, u, cur, excl) ==
    /\ f # cur
    /\ f \notin excl
    /\ ~IsResolvedItem(f)
    /\ ~LiveClaimedByOther(f, u)

StatusChoices == {{}, {"approved"}, {"excluded"}}
LinkedChoices == {{}, {<<>>}} \cup {{<<g>>} : g \in Keys}
ReviewRequests ==
    {ReviewData(st, li, {}) : st \in StatusChoices, li \in LinkedChoices}

\* The instant the server is started at, and the one later instant at which
\* requests arrive: every claim made at the start has expired by then.
ServerTimes == {0, CLAIM_TIMEOUT_MINUTES + 1}

\* The number of requests of a session.
Init ==
    /\ now = 0
    /\ claims = {}
    /\ pre = {}
    /\ last = NoCall
    /\ images = FreshImages
    /\ disk = FreshImages
    /\ threads = <<>>
    /\ served = 0
    /\ before = images
    /\ view_history = NoHistory
    /\ review_summary = save_data(FreshSummary, images)

TimePasses ==
    \E t \in ServerTimes :
        /\ t > now
        /\ now' = t
        /\ last' = NoCall
        /\ pre' = claims
        /\ before' = images
        /\ UNCHANGED <<claims, images, disk, threads, served, view_history, review_summary>>

\* POST /api/image/<filename>/heartbeat: try_claim(filename, username).
ApiHeartbeat ==
    \E f \in Keys, u \in Users :
        LET r == try_claim(claims, now, f, u, FALSE)
        IN  /\ served < MaxRequests
            /\ served' = served + 1
            /\ claims' = r.claims
            /\ pre' = claims
            /\ before' = images
            /\ last' = [NoCall EXCEPT !.op = "heartbeat", !.file = f, !.user = u,
                            !.ok = r.ok, !.code = 200]
            /\ UNCHANGED <<now, images, disk, threads, view_history, review_summary>>

ApiRelease ==
    \E f \in Keys, u \in Users :
        LET r == release_claim(claims, f, u)
        IN  /\ served < MaxRequests
            /\ served' = served + 1
            /\ claims' = r.claims
            /\ pre' = claims
            /\ before' = images
            /\ last' = [NoCall EXCEPT !.op = "release", !.file = f, !.user = u,
                            !.ok = r.ok, !.code = 200]
            /\ UNCHANGED <<now, images, disk, threads, view_history, review_summary>>

ApiReviewImage ==
    \E f \in Keys, u \in Users, data \in ReviewRequests :
        LET r == api_review_image(images, claims, disk, now, f, data, u)
        IN  /\ served < MaxRequests
            /\ served' = served + 1
            /\ images' = r.images
            /\ claims' = r.claims
            /\ disk' = r.disk
            /\ review_summary' = summary_after(review_summary, r.images, r.code)
            /\ pre' = claims
            /\ before' = images
            /\ last' = [NoCall EXCEPT !.op = "review", !.file = f, !.user = u, !.data = data,
                            !.ok = (r.code = 200), !.code = r.code]
            /\ UNCHANGED <<now, threads, view_history>>

ApiLinkImage ==
    \E f \in Keys, target \in Keys \cup {NoFile}, u \in Users :
        LET r == api_link_image(images, claims, disk, now, f, target, u)
        IN  /\ served < MaxRequests
            /\ served' = served + 1
            /\ images' = r.images
            /\ claims' = r.claims
            /\ disk' = r.disk
            /\ review_summary' = summary_after(review_summary, r.images, r.code)
            /\ pre' = claims
            /\ before' = images
            /\ last' = [NoCall EXCEPT !.op = "link", !.file = f, !.target = target,
                            !.user = u, !.ok = (r.code = 200), !.code = r.code]
            /\ UNCHANGED <<now, threads, view_history>>

ApiUnlinkImage ==
    \E f \in Keys, target \in Keys \cup {NoFile}, u \in Users :
        LET r == api_unlink_image(images, claims, disk, now, f, target, u)
        IN  /\ served < MaxRequests
            /\ served' = served + 1
            /\ images' = r.images
            /\ claims' = r.claims
            /\ disk' = r.disk
            /\ review_summary' = summary_after(review_summary, r.images, r.code)
            /\ pre' = claims
            /\ before' = images
            /\ last' = [NoCall EXCEPT !.op = "unlink", !.file = f, !.target = target,
                            !.user = u, !.ok = (r.code = 200), !.code = r.code]
            /\ UNCHANGED <<now, threads, view_history>>

Next ==
    \/ TimePasses
    \/ ApiHeartbeat
    \/ ApiRelease
    \/ ApiReviewImage
    \/ ApiLinkImage
    \/ ApiUnlinkImage

Spec == Init /\ [][Next]_vars
\* --------------------------------- the server, two requests in flight
\* The development server runs every request on a thread of its own
\* (threaded=True) and the handlers take no lock around the store, so the
\* statements of two handlers interleave. A thread is the request it
\* serves, the statement it is at (pc), and the handler's local
\* linked_images: the list object of the review record (aliased) or, once
\* another request has put a new list in the record, the old one (links).
Threads == {1, 2}

Thread(op, f, target, u, data) ==
    [op |-> op, file |-> f, target |-> target, user |-> u, data |-> data,
     pc |-> "start", links |-> <<>>, aliased |-> FALSE, code |-> 0]

ConcReviewRequests ==
    {ReviewData({st}, li, {}) :
        st \in {"approved", "excluded"},
        li \in {{}} \cup {{<<g>>} : g \in Files}}

ConcRequests ==
    {Thread("review", f, NoFile, u, data) :
        f \in Files, u \in Users, data \in ConcReviewRequests}
    \cup {Thread("link", f, target, u, ReviewData({}, {}, {})) :
        f \in Files, target \in Files, u \in Users}

ConcInit ==
    /\ now = 0
    /\ claims = {}
    /\ pre = {}
    /\ last = NoCall
    /\ images = FreshImages
    /\ disk = FreshImages
    /\ threads \in [Threads -> ConcRequests]
    /\ served = 0
    /\ before = images
    /\ view_history = NoHistory
    /\ review_summary = save_data(FreshSummary, images)

concFrame == <<now, pre, last, served, before, view_history>>

At(i, op, pc) == threads[i].op = op /\ threads[i].pc = pc

goto(i, pc) == [threads EXCEPT ![i].pc = pc]

respond(i, code) == [threads EXCEPT ![i].pc = "done", ![i].code = code]

\* The handler's local linked_images (line 687) as the thread sees it now.
local_links(th) ==
    IF th.aliased THEN images[th.file].review.linked_images ELSE th.links

\* Lines 650-662: the file is looked up and the claim is read.
ReviewStart ==
    \E i \in Threads :
        LET th == threads[i]
            claim == get_claim(claims, now, th.file)
        IN  /\ At(i, "review", "start")
            /\ claims' = claim.claims
            /\ threads' = IF th.file \notin DOMAIN images THEN respond(i, 404)
                          ELSE IF \E c \in claim.ret : c.user # th.user
                          THEN respond(i, 409)
                          ELSE goto(i, "status")
            /\ UNCHANGED <<images, disk, review_summary, concFrame>>

\* Lines 668-675.
ReviewWriteStatus ==
    \E i \in Threads :
        LET th == threads[i]
            review == images[th.file].review
        IN  /\ At(i, "review", "status")
            /\ images' = [images EXCEPT
                              ![th.file].review.status =
                                  data_get(th.data.status, review.status),
                              ![th.file].review.field_code =
                                  data_get(th.data.field_code, review.field_code)]
            /\ threads' = goto(i, "linked")
            /\ UNCHANGED <<claims, disk, review_summary, concFrame>>

\* Line 676: a list sent with the request is a new list object, and a
\* thread that holds the record's old list keeps the old list.
ReviewWriteLinked ==
    \E i \in Threads :
        LET th == threads[i]
            review == images[th.file].review
            replaced == th.data.linked_images # {}
            keeps_old(j) == /\ j # i
                            /\ replaced
                            /\ threads[j].op = "review"
                            /\ threads[j].file = th.file
                            /\ threads[j].aliased
        IN  /\ At(i, "review", "linked")
            /\ images' = [images EXCEPT ![th.file].review.linked_images =
                              data_get(th.data.linked_images, review.linked_images)]
            /\ threads' = [j \in Threads |->
                              IF j = i THEN [th EXCEPT !.pc = "reviewer"]
                              ELSE IF keeps_old(j)
                              THEN [threads[j] EXCEPT !.aliased = FALSE,
                                                      !.links = review.linked_images]
                              ELSE threads[j]]
            /\ UNCHANGED <<claims, disk, review_summary, concFrame>>

\* Lines 679-684.
ReviewWriteReviewer ==
    \E i \in Threads :
        LET th == threads[i]
            review == images[th.file].review
        IN  /\ At(i, "review", "reviewer")
            /\ images' = [images EXCEPT
                              ![th.file].review.mo_observation_id =
                                  data_get(th.data.mo_observation_id, review.mo_observation_id),
                              ![th.file].review.reviewer = Reviewer(th.user, NoFile)]
            /\ threads' = goto(i, "backlink")
            /\ UNCHANGED <<claims, disk, review_summary, concFrame>>

\* Lines 687-695.
ReviewBackLink ==
    \E i \in Threads :
        LET th == threads[i]
        IN  /\ At(i, "review", "backlink")
            /\ images' = back_link(images, th.file, images[th.file].review.linked_images)
            /\ threads' = [threads EXCEPT ![i].pc = "propagate", ![i].aliased = TRUE]
            /\ UNCHANGED <<claims, disk, review_summary, concFrame>>

\* Lines 698-701.
ReviewPropagate ==
    \E i \in Threads :
        LET th == threads[i]
        IN  /\ At(i, "review", "propagate")
            /\ images' = propagate_if_resolved(images, th.file, local_links(th), th.user)
            /\ threads' = goto(i, "release")
            /\ UNCHANGED <<claims, disk, review_summary, concFrame>>

\* Lines 704-708.
ReviewRelease ==
    \E i \in Threads :
        LET th == threads[i]
        IN  /\ At(i, "review", "release")
            /\ claims' = release_all(claims, <<th.file>> \o local_links(th), th.user)
            /\ threads' = goto(i, "save")
            /\ UNCHANGED <<images, disk, review_summary, concFrame>>

\* Line 710: save_data() writes the store as it is now.
ReviewSave ==
    \E i \in Threads :
        /\ At(i, "review", "save")
        /\ disk' = images
        /\ review_summary' = save_data(review_summary, images)
        /\ threads' = respond(i, 200)
        /\ UNCHANGED <<images, claims, concFrame>>

\* Lines 762-779: the lookups and try_claim_multiple.
LinkStart ==
    \E i \in Threads :
        LET th == threads[i]
            found == th.file \in DOMAIN images /\ th.target \in DOMAIN images
            r == try_claim_multiple(claims, now, <<th.file, th.target>>, th.user)
        IN  /\ At(i, "link", "start")
            /\ claims' = IF th.target # NoFile /\ found THEN r.claims ELSE claims
            /\ threads' = IF th.target = NoFile THEN respond(i, 400)
                          ELSE IF ~found THEN respond(i, 404)
                          ELSE IF ~r.ok THEN respond(i, 409)
                          ELSE goto(i, "source")
            /\ UNCHANGED <<images, disk, review_summary, concFrame>>

\* Lines 781-786.
LinkSource ==
    \E i \in Threads :
        LET th == threads[i]
        IN  /\ At(i, "link", "source")
            /\ images' = [images EXCEPT ![th.file].review.linked_images =
                              append_if_absent(images[th.file].review.linked_images, th.target)]
            /\ threads' = goto(i, "target")
            /\ UNCHANGED <<claims, disk, review_summary, concFrame>>

\* Lines 788-793.
LinkTarget ==
    \E i \in Threads :
        LET th == threads[i]
        IN  /\ At(i, "link", "target")
            /\ images' = [images EXCEPT ![th.target].review.linked_images =
                              append_if_absent(images[th.target].review.linked_images, th.file)]
            /\ threads' = goto(i, "save")
            /\ UNCHANGED <<claims, disk, review_summary, concFrame>>

\* Line 795.
LinkSave ==
    \E i \in Threads :
        /\ At(i, "link", "save")
        /\ disk' = images
        /\ review_summary' = save_data(review_summary, images)
        /\ threads' = respond(i, 200)
        /\ UNCHANGED <<images, claims, concFrame>>

ConcNext ==
    \/ ReviewStart
    \/ ReviewWriteStatus
    \/ ReviewWriteLinked
    \/ ReviewWriteReviewer
    \/ ReviewBackLink
    \/ ReviewPropagate
    \/ ReviewRelease
    \/ ReviewSave
    \/ LinkStart
    \/ LinkSource
    \/ LinkTarget
    \/ LinkSave

SpecConc == ConcInit /\ [][ConcNext]_vars

\* ------------------------------------------------------ the canonical order
\* The priority tuples calculate_priority gives: a class, the location tier
\* (99 when the location is in no tier) and the flag.
SortPriorities == {<<c, tier, flag>> : c \in {0, 1}, tier \in {1, 99}, flag \in BOOLEAN}

SortInit ==
    /\ now = 0
    /\ claims = {}
    /\ pre = {}
    /\ last = NoCall
    /\ \E pr \in [Items -> SortPriorities] :
           images = [f \in Items |-> Image(pr[f], FreshReview)]
    /\ disk = images
    /\ threads = <<>>
    /\ served = 0
    /\ before = images
    /\ view_history = NoHistory
    /\ review_summary = save_data(FreshSummary, images)

\* get_sorted_images() on the store; a later call sorts the same store again.
CallGetSortedImages ==
    /\ last' = [NoCall EXCEPT !.op = "sorted", !.files = get_sorted_images(images)]
    /\ UNCHANGED <<now, claims, pre, storeVars>>

\* get_navigation_context(filename), for a filename of the store or one that
\* is not in it.
CallGetNavigationContext ==
    \E f \in Keys :
        /\ last' = [NoCall EXCEPT !.op = "adjacent", !.file = f,
                        !.nav = get_navigation_context(images, f)]
        /\ UNCHANGED <<now, claims, pre, storeVars>>

SortNext ==
    \/ CallGetSortedImages
    \/ CallGetNavigationContext

SpecSort == SortInit /\ [][SortNext]_vars

\* The arrangements of the store's items, each item once.
Arrangements ==
    {s \in [1..NumItems -> Items] : \A i, j \in 1..NumItems : s[i] = s[j] => i = j}

Ascending(s) == \A i, j \in 1..Len(s) : i < j => CanonicalBefore(s[i], s[j])

\* C20: the canonical order is the ascending sort by (priority value, item
\* key): the sorted sequence holds every item of the store exactly once in
\* ascending order, two distinct items are never tied even when their
\* priority values are equal, and no other arrangement of the items is
\* ascending, so that every sort of the same items yields this sequence.
C20_CanonicalOrderTotal ==
    (last.op = "sorted") =>
        /\ Len(last.files) = NumItems
        /\ Range(last.files) = Items
        /\ Ascending(last.files)
        /\ \A a, b \in Items :
               a # b => (CanonicalBefore(a, b) <=> ~CanonicalBefore(b, a))
        /\ \A s \in Arrangements : Ascending(s) => s = last.files
        /\ get_sorted_images(images) = last.files

\* A sort of a store where two items have the same priority value and an
\* item of a larger key comes first by its priority.
C20_Witness ==
    /\ last.op = "sorted"
    /\ \E a, b \in Items : a # b /\ images[a].priority = images[b].priority
    /\ \E a, b \in Items : a < b /\ CanonicalBefore(b, a)

\* The item at a 0-based index of the canonical order, or none when the
\* order has no such index.
ItemAt(i) ==
    IF \E f \in Items : Position(f) = i
    THEN CHOOSE f \in Items : Position(f) = i
    ELSE NoFile

\* C21: adjacent(item) returns the item's index in canonical order, the
\* total number of items, prev = the item just before it (none at index 0)
\* and next = the item just after it (none at the last index, without
\* wraparound); for a key that is not in the store the index is 0 and prev
\* and next are those of index 0.
C21_Adjacent ==
    (last.op = "adjacent") =>
        LET idx == IF last.file \in Items THEN Position(last.file) ELSE 0
        IN  /\ last.nav.current_index = idx
            /\ last.nav.total = NumItems
            /\ last.nav.prev = (IF idx = 0 THEN NoFile ELSE ItemAt(idx - 1))
            /\ last.nav.next = (IF idx = NumItems - 1 THEN NoFile ELSE ItemAt(idx + 1))
            /\ last.nav.prev # NoFile => CanonicalBefore(last.nav.prev, ItemAt(idx))
            /\ last.nav.next # NoFile => CanonicalBefore(ItemAt(idx), last.nav.next)

\* adjacent() has answered for the last item of the order, in a store whose
\* order is not the order of the keys.
C21_Witness ==
    /\ last.op = "adjacent"
    /\ \E a, b \in Items : a < b /\ CanonicalBefore(b, a)
    /\ last.file \in Items
    /\ last.nav.next = NoFile
    /\ last.nav.prev # NoFile

\* ------------------------------------------- the view history: the actions
\* A store of more images than a history keeps, so that a history fills up.
HistoryItems == 1..(HISTORY_LIMIT + NumItems)

\* The history of a user who has viewed the first n images in turn.
Trail(n) == [i \in 1..n |-> n + 1 - i]

\* The images the requests view: the first of the store, which the trails
\* hold as their oldest entry, and images that no trail holds.
ViewedItems == {1} \cup {HISTORY_LIMIT + i : i \in 1..(NumItems - 1)}

HistoryInit ==
    /\ now = 0
    /\ claims = {}
    /\ pre = {}
    /\ last = NoCall
    /\ images = [f \in HistoryItems |-> Image(DefaultPriority, FreshReview)]
    /\ disk = images
    /\ threads = <<>>
    /\ served = 0
    /\ before = images
    /\ view_history \in [Users -> {Trail(0), Trail(HISTORY_LIMIT - 1), Trail(HISTORY_LIMIT)}]
    /\ review_summary = FreshSummary

\* add_to_view_history(filename, username), as GET /api/image/<filename>
\* with add_to_history=true calls it; last.files is the user's history as
\* the call found it.
CallAddToViewHistory ==
    \E u \in Users, f \in ViewedItems :
        /\ served < MaxRequests
        /\ served' = served + 1
        /\ view_history' = add_to_view_history(view_history, f, u)
        /\ last' = [NoCall EXCEPT !.op = "record_view", !.user = u, !.file = f,
                        !.files = view_history[u]]
        /\ UNCHANGED <<now, claims, pre, images, disk, threads, before,
                       review_summary>>

HistoryNext == CallAddToViewHistory

SpecHistory == HistoryInit /\ [][HistoryNext]_vars

\* A history without one of its items, the others in their order.
Without(h, f) == SelectSeq(h, LAMBDA g : g # f)

\* C22: after any sequence of record_view calls every user's history holds
\* no item twice and at most 100 entries; the item viewed last is at the
\* front, the other entries keep their relative order, only the oldest
\* entry is evicted and only when the cap is exceeded, and viewing an item
\* again moves it to the front without changing the length.
C22_HistoryDedupCapped ==
    /\ \A u \in Users :
           /\ Len(view_history[u]) <= HISTORY_LIMIT
           /\ Cardinality(Range(view_history[u])) = Len(view_history[u])
    /\ (last.op = "record_view") =>
           LET h == view_history[last.user]
               old == last.files
               others == Without(old, last.file)
           IN  /\ Head(h) = last.file
               /\ Tail(h) = SubSeq(others, 1, Len(h) - 1)
               /\ last.file \in Range(old) => Len(h) = Len(old)
               /\ last.file \notin Range(old) =>
                      IF Len(old) < HISTORY_LIMIT
                      THEN Len(h) = Len(old) + 1
                      ELSE /\ Len(h) = HISTORY_LIMIT
                           /\ Range(old) \ Range(h) = {old[Len(old)]}

\* A view of a new image by a user whose history is full, which evicts the
\* oldest entry.
C22_Witness ==
    /\ last.op = "record_view"
    /\ Len(last.files) = HISTORY_LIMIT
    /\ last.file \notin Range(last.files)
    /\ Len(view_history[last.user]) = HISTORY_LIMIT

\* --------------------------------------- the store, one request at a time
\* A request on the store is served from a store and a claim table that
\* earlier requests have left: items not reviewed, approved by user 1, or
\* attached to an upstream observation (api_mo_add_to_existing sets
\* mo_observation_id and no status), with the linked lists of one of a few
\* shapes and the claims of one of a few tables.
ACode == "NEMF-1"

ItemKinds == {"unset", "approved", "uploaded"}

StoreReview(kind) == NavReview(<<kind, NoUser, 0>>)

\* The linked lists: no link, items 1 and 2 linked, item 2 left with a
\* one-sided link to item 1, item 1 linked with every other item.
LinkShapes ==
    LET other == 2
        nobody == [f \in Items |-> <<>>]
        rest == [i \in 1..(NumItems - 1) |-> i + 1]
    IN  { nobody,
          [nobody EXCEPT ![1] = <<other>>, ![other] = <<1>>],
          [nobody EXCEPT ![other] = <<1>>],
          [f \in Items |-> IF f = 1 THEN rest ELSE <<1>>] }

\* The claim tables: every item held by user 1, the items held by the users
\* in turn, and no live claim at all, the claims user 1 made at instant 0
\* having expired with nothing having purged them yet.
ClaimShapes ==
    { {ClaimEntry(f, 1, NavNow, NavNow) : f \in Items},
      {ClaimEntry(f, ((f - 1) % NumUsers) + 1, NavNow, NavNow) : f \in Items},
      {ClaimEntry(f, 1, 0, 0) : f \in Items} }

\* The bodies of the review requests: a status that is left out, null or one
\* of the four, a list that is left out, empty, names item 1 or item 2, or
\* names a key that is not in the store and then item 2, and for some of
\* them a field code and an upstream observation.
StoreLinkedChoices ==
    {{}, {<<>>}} \cup {{<<g>>} : g \in Files} \cup {{<<NumItems + 1, 2>>}}

StoreStatusChoices == {{}, {NoStatus}} \cup {{st} : st \in RESOLVED_STATUSES}

StoreReviewRequests ==
    {ReviewData(st, li, {}) : st \in StoreStatusChoices, li \in StoreLinkedChoices}
    \cup {with_field_code(ReviewData({st}, {}, {AnObservation}), ACode) :
              st \in {"corrected", "already_on_mo"}}

StoreInit ==
    /\ now = NavNow
    /\ \E kinds \in [Items -> ItemKinds], links \in LinkShapes :
           images = [f \in Items |->
                        Image(DefaultPriority,
                              [StoreReview(kinds[f]) EXCEPT !.linked_images = links[f]])]
    /\ claims \in ClaimShapes
    /\ pre = claims
    /\ last = NoCall
    /\ disk = images
    /\ threads = <<>>
    /\ served = 0
    /\ before = images
    /\ view_history = NoHistory
    /\ review_summary = save_data(FreshSummary, images)

storeFrame == <<now, threads, served, view_history>>

CallReviewImage ==
    \E f \in Keys, u \in Users, data \in StoreReviewRequests :
        LET r == api_review_image(images, claims, disk, now, f, data, u)
        IN  /\ last.op = "none"
            /\ images' = r.images
            /\ claims' = r.claims
            /\ disk' = r.disk
            /\ review_summary' = summary_after(review_summary, r.images, r.code)
            /\ pre' = claims
            /\ before' = images
            /\ last' = [NoCall EXCEPT !.op = "review", !.file = f, !.user = u,
                            !.data = data, !.ok = (r.code = 200), !.code = r.code]
            /\ UNCHANGED storeFrame

CallLinkImage ==
    \E f \in Keys, target \in Keys \cup {NoFile}, u \in Users :
        LET r == api_link_image(images, claims, disk, now, f, target, u)
        IN  /\ last.op = "none"
            /\ images' = r.images
            /\ claims' = r.claims
            /\ disk' = r.disk
            /\ review_summary' = summary_after(review_summary, r.images, r.code)
            /\ pre' = claims
            /\ before' = images
            /\ last' = [NoCall EXCEPT !.op = "link", !.file = f, !.target = target,
                            !.user = u, !.ok = (r.code = 200), !.code = r.code]
            /\ UNCHANGED storeFrame

CallUnlinkImage ==
    \E f \in Keys, target \in Keys \cup {NoFile}, u \in Users :
        LET r == api_unlink_image(images, claims, disk, now, f, target, u)
        IN  /\ last.op = "none"
            /\ images' = r.images
            /\ claims' = r.claims
            /\ disk' = r.disk
            /\ review_summary' = summary_after(review_summary, r.images, r.code)
            /\ pre' = claims
            /\ before' = images
            /\ last' = [NoCall EXCEPT !.op = "unlink", !.file = f, !.target = target,
                            !.user = u, !.ok = (r.code = 200), !.code = r.code]
            /\ UNCHANGED storeFrame

StoreNext ==
    \/ CallReviewImage
    \/ CallLinkImage
    \/ CallUnlinkImage

SpecStore == StoreInit /\ [][StoreNext]_vars

\* ------------------------------------- the store: requests and the claims
\* The instant of the requests: the first one beyond the override window of
\* a claim made at instant 0.
GuardNow == CLAIM_OVERRIDE_MINUTES + 1

\* What the table holds for an item: a claim made and refreshed at this
\* instant, a claim made at instant 0 and refreshed at this instant (live,
\* and older than the override window), or a claim made at instant 0 and
\* never refreshed (expired, and not purged yet).
GuardClaimTimes == {<<GuardNow, GuardNow>>, <<0, GuardNow>>, <<0, 0>>}

\* The claim tables: item 1 unclaimed or held by any user in any of the three
\* ways, item 2 unclaimed, left with an expired claim of user 1 or held live
\* by user 2.
GuardClaimShapes ==
    LET first == {{}} \cup {{ClaimEntry(1, u, ts[1], ts[2])} :
                               u \in Users, ts \in GuardClaimTimes}
        second == {{}, {ClaimEntry(2, 1, 0, 0)},
                   {ClaimEntry(2, 2, GuardNow, GuardNow)}}
    IN  {a \cup b : a \in first, b \in second}

\* The store: every item of the same kind, linked in one of the shapes.
GuardInit ==
    /\ now = GuardNow
    /\ \E kind \in ItemKinds, links \in LinkShapes :
           images = [f \in Items |->
                        Image(DefaultPriority,
                              [StoreReview(kind) EXCEPT !.linked_images = links[f]])]
    /\ claims \in GuardClaimShapes
    /\ pre = claims
    /\ last = NoCall
    /\ disk = images
    /\ threads = <<>>
    /\ served = 0
    /\ before = images
    /\ view_history = NoHistory
    /\ review_summary = save_data(FreshSummary, images)

SpecGuard == GuardInit /\ [][StoreNext]_vars

\* ------------------------------------------------- the store: an upload
\* What the upstream repository does during one request.
UpstreamOutcomes ==
    [linked_ok : -1..NumItems, slip : {"created", "conflict", "unavailable"}]

CallMoCreateNew ==
    \E f \in Keys \cup {NoFile}, u \in Users, upstream \in UpstreamOutcomes :
        LET r == api_mo_create_new(images, claims, disk, now, f, u, upstream)
        IN  /\ last.op = "none"
            /\ images' = r.images
            /\ claims' = r.claims
            /\ disk' = r.disk
            /\ review_summary' = summary_after(review_summary, r.images, r.code)
            /\ pre' = claims
            /\ before' = images
            /\ last' = [NoCall EXCEPT !.op = "create_new", !.file = f, !.user = u,
                            !.ok = (r.code = 200), !.code = r.code]
            /\ UNCHANGED storeFrame

UploadNext == CallMoCreateNew

SpecUpload == StoreInit /\ [][UploadNext]_vars

\* C26: the store is persisted after each mutation: whenever an operation
\* that changed any review record or linked set has returned, successfully
\* or with an error, the item map of the persisted snapshot equals the
\* item map in memory.
C26_PersistedAfterMutation ==
    (last.op # "none" /\ images # before) => disk = images

\* ------------------------------------------- properties: finalize and link
\* The last request was a review that the server accepted.
Reviewed == last.op = "review" /\ last.code = 200

\* The items of the store that the reviewed item lists after the review,
\* the reviewed item itself left out.
Targets == (Range(images[last.file].review.linked_images) \cap Items) \ {last.file}

WasUnset(g) == before[g].review.status = NoStatus

WasResolved(g) ==
    \/ before[g].review.status \in RESOLVED_STATUSES
    \/ before[g].review.mo_observation_id # NoObservation

SameJudgment(r1, r2) ==
    /\ r1.status = r2.status
    /\ r1.field_code = r2.field_code
    /\ r1.mo_observation_id = r2.mo_observation_id
    /\ r1.reviewer = r2.reviewer

\* C12: finalize never changes the review record of a linked item that is
\* already resolved (a terminal status, or an upstream observation reference
\* already present): its status, descriptive fields, upstream observation
\* reference and reviewer are the same after the finalize as before.
C12_ResolvedLinkedUntouched ==
    Reviewed =>
        \A g \in Targets :
            WasResolved(g) => SameJudgment(images[g].review, before[g].review)

\* C13: when finalize leaves the source with a terminal status, every linked
\* item whose status was unset receives the source status if that is excluded
\* or already_on_mo and approved if it is approved or corrected; when the
\* source status after the finalize is not terminal, no other item's status
\* changes.
C13_PropagatedStatus ==
    Reviewed =>
        LET status == images[last.file].review.status
        IN  IF status \in RESOLVED_STATUSES
            THEN \A g \in Targets :
                     WasUnset(g) =>
                         images[g].review.status =
                             IF status \in {"excluded", "already_on_mo"}
                             THEN status
                             ELSE "approved"
            ELSE \A g \in Items \ {last.file} :
                     images[g].review.status = before[g].review.status

\* A finalize as corrected that reached a linked item with no status.
C13_Witness ==
    /\ Reviewed
    /\ images[last.file].review.status = "corrected"
    /\ \E g \in Targets : WasUnset(g) /\ images[g].review.status = "approved"

\* C14: every linked target with unset status that a terminal finalize of
\* item P by user u propagates to has afterwards P's descriptive fields and
\* upstream observation reference, the reviewer u:propagated_from:P, and P in
\* its linked list.
C14_PropagatedFields ==
    (Reviewed /\ images[last.file].review.status \in RESOLVED_STATUSES) =>
        \A g \in Targets :
            WasUnset(g) =>
                /\ images[g].review.field_code = images[last.file].review.field_code
                /\ images[g].review.mo_observation_id
                       = images[last.file].review.mo_observation_id
                /\ images[g].review.reviewer = Reviewer(last.user, last.file)
                /\ last.file \in Range(images[g].review.linked_images)

\* A terminal finalize that carried a field code and an upstream observation
\* to a linked item with no status.
C14_Witness ==
    /\ Reviewed
    /\ images[last.file].review.status \in RESOLVED_STATUSES
    /\ images[last.file].review.field_code = ACode
    /\ images[last.file].review.mo_observation_id = AnObservation
    /\ \E g \in Targets : WasUnset(g) /\ before[g].review.field_code # ACode

\* The store after the same review request is served a second time.
ReviewedAgain ==
    api_review_image(images, claims, disk, now, last.file, last.data, last.user)

\* C15: propagation is idempotent per target: a second finalize of the same
\* source with the same update is accepted and leaves the review record
\* (status, fields, reviewer, linked list) of every target the first one
\* propagated to unchanged.
C15_PropagationIdempotent ==
    (Reviewed /\ images[last.file].review.status \in RESOLVED_STATUSES) =>
        /\ ReviewedAgain.code = 200
        /\ \A g \in Targets :
               WasUnset(g) => ReviewedAgain.images[g].review = images[g].review

\* A terminal finalize that propagated to two linked items.
C15_Witness ==
    /\ Reviewed
    /\ images[last.file].review.status \in RESOLVED_STATUSES
    /\ Cardinality({g \in Targets : WasUnset(g)}) >= 2

\* C16: no request leaves a terminal state: an item whose status was one of
\* approved, corrected, excluded, already_on_mo before a finalize (whatever
\* status its update carries), link or unlink does not have an unset status
\* after it.
C16_TerminalNeverUnset ==
    \A f \in Items :
        before[f].review.status \in RESOLVED_STATUSES =>
            images[f].review.status # NoStatus

\* The item reviewed and the keys it lists after the review.
ReleasedKeys == {last.file} \cup Range(images[last.file].review.linked_images)

\* C17: after a successful finalize(item, update, user), user holds no claim
\* on item or on any item of item's linked list, and the live claims other
\* users held on those items are still in the table.
C17_FinalizeReleasesOwnClaims ==
    Reviewed =>
        /\ \A c \in claims : c.file \in ReleasedKeys => c.user # last.user
        /\ \A c \in pre :
               (c.file \in ReleasedKeys /\ c.user # last.user /\ Live(c, now))
                   => c \in claims

\* A finalize by the holder of the item and of one linked item, another
\* linked item being held by somebody else.
C17_Witness ==
    /\ Reviewed
    /\ \E c \in pre : c.file = last.file /\ c.user = last.user
    /\ \E c \in pre : c.file \in ReleasedKeys \ {last.file} /\ c.user = last.user
    /\ \E c \in pre : c.file \in ReleasedKeys /\ c.user # last.user /\ c \in claims

\* The reviewed item lists a key that is not in the store.
AbsentListed ==
    \E g \in Range(images[last.file].review.linked_images) : g \notin Items

\* C30: a finalize whose linked list names a key that is absent from the
\* store skips that key for back-linking and propagation only: no record is
\* made for the key, the source item's own review record is updated from the
\* request, every other listed item of the store lists the source and, when
\* it was unset and the source is left with a terminal status, receives the
\* propagated status, the caller holds no claim on the item or on a listed
\* key, and the snapshot on disk is the store.
C30_AbsentLinkedKeySkipped ==
    (Reviewed /\ AbsentListed) =>
        LET f == last.file
            review == images[f].review
        IN  /\ DOMAIN images = Items
            /\ review.status = data_get(last.data.status, before[f].review.status)
            /\ review.linked_images =
                   data_get(last.data.linked_images, before[f].review.linked_images)
            /\ review.reviewer = Reviewer(last.user, NoFile)
            /\ \A g \in Targets :
                   /\ f \in Range(images[g].review.linked_images)
                   /\ (WasUnset(g) /\ review.status \in RESOLVED_STATUSES) =>
                          /\ images[g].review.status = propagated_status(review.status)
                          /\ images[g].review.reviewer = Reviewer(last.user, f)
            /\ \A c \in claims : c.file \in ReleasedKeys => c.user # last.user
            /\ disk = images

\* Item 1 finalized as excluded with a list that names an absent key and then
\* item 2, which was unset, did not list item 1 and was held by the caller
\* like item 1: item 2 is excluded and lists item 1.
C30_Witness ==
    /\ Reviewed
    /\ last.file = 1
    /\ images[1].review.linked_images = <<NumItems + 1, 2>>
    /\ images[1].review.status = "excluded"
    /\ WasUnset(2)
    /\ 1 \notin Range(before[2].review.linked_images)
    /\ images[2].review.status = "excluded"
    /\ \A g \in {1, 2} : \E c \in pre : c.file = g /\ c.user = last.user

\* The number of times f occurs in a list.
Occurrences(links, f) == Cardinality({i \in 1..Len(links) : links[i] = f})

LinksOf(imgs, f) == imgs[f].review.linked_images

C19_NotFoundChangesNothing ==
    (/\ last.op \in {"link", "unlink"}
     /\ last.target # NoFile
     /\ (last.file \notin Items \/ last.target \notin Items)) =>
        /\ last.code = 404
        /\ images = before
        /\ disk = before
        /\ claims = pre

\* An unlink naming a key that is not in the store, served while the claim
\* table held expired entries.
C19_Witness ==
    /\ last.op = "unlink"
    /\ last.file \in Items
    /\ last.target \notin Items
    /\ last.target # NoFile
    /\ last.code = 404
    /\ \E c \in pre : ~Live(c, now)

\* ------------------------------------------------------------ the snapshot
\* save_data() on a store whose items have any status, with the
\* review_summary the data file was loaded with: the counts of a fresh file,
\* or counts that do not agree with the items.
SaveInit ==
    /\ now = 0
    /\ claims = {}
    /\ pre = {}
    /\ last = NoCall
    /\ \E st \in [Items -> {NoStatus} \cup RESOLVED_STATUSES] :
           images = [f \in Items |->
                        Image(DefaultPriority, [FreshReview EXCEPT !.status = st[f]])]
    /\ disk = images
    /\ threads = <<>>
    /\ served = 0
    /\ before = images
    /\ view_history = NoHistory
    /\ review_summary \in
           {FreshSummary,
            [FreshSummary EXCEPT !.reviewed = NumItems, !.approved = NumItems,
                                 !.corrected = 1, !.excluded = 1,
                                 !.already_on_mo = 1]}

\* save_data(): the summary is recomputed in review_data and the snapshot
\* written; last.summary is the summary the call found.
CallSaveData ==
    /\ review_summary' = save_data(review_summary, images)
    /\ disk' = images
    /\ last' = [NoCall EXCEPT !.op = "save", !.summary = review_summary]
    /\ UNCHANGED <<now, claims, pre, images, threads, served, before, view_history>>

SaveNext == CallSaveData

SpecSave == SaveInit /\ [][SaveNext]_vars

\* The items of the persisted snapshot with a given status.
Persisted(status) == {f \in DOMAIN disk : disk[f].review.status = status}

\* C25: in every persisted snapshot the status counts are those of the item
\* map: reviewed is the number of items whose status is set, and approved,
\* corrected, excluded and already_on_mo are the numbers of items with
\* exactly that status, whatever the counts were before the operation.
C25_CountsRecomputed ==
    (last.op = "save") =>
        /\ review_summary.reviewed = NumItems - Cardinality(Persisted(NoStatus))
        /\ review_summary.approved = Cardinality(Persisted("approved"))
        /\ review_summary.corrected = Cardinality(Persisted("corrected"))
        /\ review_summary.excluded = Cardinality(Persisted("excluded"))
        /\ review_summary.already_on_mo = Cardinality(Persisted("already_on_mo"))

\* A snapshot written from counts that did not agree with the items: the
\* summary found counted every item as approved, and one is.
C25_Witness ==
    /\ last.op = "save"
    /\ last.summary.approved = NumItems
    /\ Cardinality(Persisted("approved")) = 1
    /\ Persisted(NoStatus) # {}

\* ------------------------------------------- navigation along the history
\* The histories a user can have of the store's images: each image at most
\* once, in any order.
Histories ==
    {h \in UNION {[1..n -> Items] : n \in 0..NumItems} :
        \A i, j \in DOMAIN h : h[i] = h[j] => i = j}

\* A navigation request arrives at a store and a claim table that earlier
\* requests have left, from user 1 who has a history or from a user who has
\* none.  The priority classes run against the filename order.
TrailInit ==
    /\ now = NavNow
    /\ \E kinds \in [Items -> ItemKinds] :
           images = [f \in Items |->
                        Image(<<NumItems - f, 1, FALSE>>, StoreReview(kinds[f]))]
    /\ claims \in ClaimShapes
    /\ pre = claims
    /\ last = NoCall
    /\ disk = images
    /\ threads = <<>>
    /\ served = 0
    /\ before = images
    /\ \E h \in Histories : view_history = [NoHistory EXCEPT ![1] = h]
    /\ review_summary = save_data(FreshSummary, images)

CallNavigation ==
    \E u \in Users, f \in Keys :
        LET r == api_navigation(images, claims, view_history, now, f, u)
        IN  /\ last.op = "none"
            /\ claims' = r.claims
            /\ pre' = claims
            /\ last' = [NoCall EXCEPT !.op = "navigation", !.user = u, !.file = f,
                            !.in_history = r.in_history, !.priority = r.priority,
                            !.found = r.next_unreviewed, !.ok = TRUE, !.code = 200]
            /\ UNCHANGED <<now, storeVars>>

TrailNext == CallNavigation

SpecTrail == TrailInit /\ [][TrailNext]_vars

\* The positions of the caller's history that are more recent than the
\* current item (none when the current item is not in the history).
MoreRecent ==
    LET h == view_history[last.user]
    IN  {i \in DOMAIN h : \E q \in DOMAIN h : h[q] = last.file /\ i < q}

\* C23: next_unresolved_via_history(user, current) returns the first
\* unresolved item met when the user's history is walked from the entry
\* just before current toward index 0; it returns none when current is not
\* in the history, when current is at index 0, or when every more recent
\* entry is resolved, and it never returns current.
C23_NextUnresolvedViaHistory ==
    (last.op = "navigation") =>
        LET h == view_history[last.user]
            unresolved == {i \in MoreRecent : ~IsResolvedItem(h[i])}
        IN  /\ last.in_history # last.file
            /\ IF unresolved = {}
               THEN last.in_history = NoFile
               ELSE \E i \in unresolved :
                        /\ last.in_history = h[i]
                        /\ \A j \in unresolved : j <= i

\* The walk passed a resolved entry and answered an unresolved one beyond
\* it.
C23_Witness ==
    /\ last.op = "navigation"
    /\ last.in_history # NoFile
    /\ LET h == view_history[last.user]
       IN  /\ Len(h) = NumItems
           /\ h[NumItems] = last.file
           /\ IsResolvedItem(h[NumItems - 1])
           /\ ~IsResolvedItem(h[1])

\* C24: the combined navigation policy returns the result of
\* next_unresolved_via_history whenever that is not none, and otherwise the
\* result of next_unresolved over the canonical order from just after
\* current; it returns none only when both are none.
C24_HistoryFirstPolicy ==
    (last.op = "navigation") =>
        LET eligible == {f \in Items : Eligible(f, last.user, last.file, {})}
        IN  /\ last.in_history # NoFile => last.found = last.in_history
            /\ last.in_history = NoFile => last.found = last.priority
            /\ (last.found = NoFile) <=>
                   (last.in_history = NoFile /\ last.priority = NoFile)
            /\ IF eligible = {}
               THEN last.priority = NoFile
               ELSE /\ last.priority \in eligible
                    /\ \A g \in eligible :
                           ScanDistance(last.priority, last.file)
                               <= ScanDistance(g, last.file)

\* The history and the canonical order gave different items, and the
\* history's was answered.
C24_Witness ==
    /\ last.op = "navigation"
    /\ last.in_history # NoFile
    /\ last.priority # NoFile
    /\ last.priority # last.in_history
    /\ last.found = last.in_history

\* C37: the item the combined navigation policy returns is never an item on
\* which another user than the caller holds a live claim.
C37_NavigationSkipsOthersClaims ==
    (last.op = "navigation" /\ last.found # NoFile) =>
        ~(\E e \in pre :
              e.file = last.found /\ e.user # last.user /\ Live(e, now))

\* ------------------------------------------------------------- the locks
\* The server has two locks, claims_lock and view_history_lock (lines 36 and
\* 40), and none around the store.  Each is taken by a `with` block of one
\* function of lines 157-267, and no such block calls a function that takes
\* a lock.  The locks a request takes, in order, each released before the
\* next is taken; n is the number of images the request goes through:
\*   heartbeat, release, link, unlink: one call of try_claim,
\*     release_claim, try_claim_multiple or get_claim;
\*   image (GET /api/image with add_to_history): add_to_view_history, then
\*     try_claim;
\*   navigation: get_view_history, then get_claim for each unresolved
\*     candidate get_next_unreviewed_for_user looks at;
\*   review: get_claim, release_claim for the image and for each of its
\*     linked images.
critical_sections(op, n) ==
    LET claims_n == [i \in 1..n |-> "claims_lock"]
    IN  IF op = "image" THEN <<"view_history_lock", "claims_lock">>
        ELSE IF op = "navigation" THEN <<"view_history_lock">> \o claims_n
        ELSE IF op = "review" THEN <<"claims_lock", "claims_lock">> \o claims_n
        ELSE <<"claims_lock">>

\* `with lock:` blocks one after the other: each lock is released before
\* the next is acquired.  (Blocks that enclose the calls after them acquire
\* every lock before they release any.)
with_blocks_nested(locks) ==
    [i \in 1..(2 * Len(locks)) |->
        IF i <= Len(locks)
        THEN [do |-> "acquire", lock |-> locks[i]]
        ELSE [do |-> "release", lock |-> locks[2 * Len(locks) + 1 - i]]]
with_blocks(locks) ==
    [i \in 1..(2 * Len(locks)) |->
        [do |-> IF i % 2 = 1 THEN "acquire" ELSE "release",
         lock |-> locks[(i + 1) \div 2]]]

\* The requests in flight: what is left of their lock operations, and the
\* locks they hold.
LockRequests ==
    {[op |-> op, todo |-> with_blocks(critical_sections(op, 0)), held |-> {}] :
         op \in {"heartbeat", "release", "link", "unlink", "image"}}
    \cup {[op |-> op, todo |-> with_blocks(critical_sections(op, n)), held |-> {}] :
              op \in {"navigation", "review"}, n \in 0..NumItems}

LocksInit ==
    /\ now = 0
    /\ claims = {}
    /\ pre = {}
    /\ last = NoCall
    /\ images = FreshImages
    /\ disk = FreshImages
    /\ threads \in [Threads -> LockRequests]
    /\ served = 0
    /\ before = images
    /\ view_history = NoHistory
    /\ review_summary = FreshSummary

\* threading.Lock is not reentrant: acquire() waits while any thread, the
\* caller included, holds the lock.
LockFree(lock) == \A j \in Threads : lock \notin threads[j].held

CanStep(i) ==
    /\ threads[i].todo # <<>>
    /\ Head(threads[i].todo).do = "acquire" => LockFree(Head(threads[i].todo).lock)

AcquireLock ==
    \E i \in Threads :
        /\ CanStep(i)
        /\ Head(threads[i].todo).do = "acquire"
        /\ threads' = [threads EXCEPT
                          ![i].held = @ \cup {Head(threads[i].todo).lock},
                          ![i].todo = Tail(@)]
        /\ UNCHANGED <<now, claims, pre, last, images, disk, served, before,
                       view_history, review_summary>>

ReleaseLock ==
    \E i \in Threads :
        /\ CanStep(i)
        /\ Head(threads[i].todo).do = "release"
        /\ threads' = [threads EXCEPT
                          ![i].held = @ \ {Head(threads[i].todo).lock},
                          ![i].todo = Tail(@)]
        /\ UNCHANGED <<now, claims, pre, last, images, disk, served, before,
                       view_history, review_summary>>

LocksNext ==
    \/ AcquireLock
    \/ ReleaseLock

SpecLocks == LocksInit /\ [][LocksNext]_vars

\* C27: no operation ever holds more than one lock at the same time, and no
\* interleaving of concurrent acquire, release, peek, record_view,
\* navigation, link, unlink and finalize calls reaches a deadlock: while a
\* request is unfinished, some request can take its next step.
C27_OneLockNoDeadlock ==
    /\ \A i \in Threads : Cardinality(threads[i].held) <= 1
    /\ (\E i \in Threads : threads[i].todo # <<>>) => (\E i \in Threads : CanStep(i))

\* Two requests hold the two locks at the same time, and the one that holds
\* the history lock will ask for the claims lock next.
C27_Witness ==
    \E i, j \in Threads :
        /\ threads[i].held = {"claims_lock"}
        /\ threads[j].held = {"view_history_lock"}
        /\ Len(threads[j].todo) > 1
        /\ threads[j].todo[2].lock = "claims_lock"

\* ----------------------------------------------- properties: the linkage
linked(f) == Range(images[f].review.linked_images)

\* C4: linkage is symmetric in every reachable state: after any sequence of
\* link, unlink and finalize requests, for all items A and B of the store,
\* B is in A's linked list if and only if A is in B's.
C4_LinkageSymmetric ==
    \A a \in Items, b \in Items : (b \in linked(a)) <=> (a \in linked(b))

\* ------------------------------------ properties: concurrent mutations
\* A request served alone, from start to response.
serve(th, st) ==
    IF th.op = "review"
    THEN api_review_image(st.images, st.claims, st.disk, now, th.file, th.data, th.user)
    ELSE api_link_image(st.images, st.claims, st.disk, now, th.file, th.target, th.user)

\* The two requests served one after the other on the store of ConcInit.
serial(first, second) ==
    serve(threads[second],
          serve(threads[first],
                [images |-> FreshImages, claims |-> {}, disk |-> FreshImages]))

AllDone == \A i \in Threads : threads[i].pc = "done"

\* C3: store mutations are serialised: when finalize and link requests run
\* concurrently on request threads, the final store and the final snapshot
\* equal the result of running the requests one after the other in some
\* order, so that no request's update is lost.
C3_StoreMutationsSerialised ==
    AllDone =>
        \E first \in Threads, second \in Threads :
            /\ first # second
            /\ images = serial(first, second).images
            /\ disk = serial(first, second).disk

\* ------------------------------------------------- the heartbeat requests
\* POST /api/image/<filename>/heartbeat: try_claim(filename, username).
heartbeat_refresh_only(cl, t, f, u) ==
    LET c1 == cleanup_expired_claims(cl, t)
        own == {c \in claims_get(c1, f) : c.user = u}
    IN  IF own # {}
        THEN [claims |-> (c1 \ own) \cup {refresh_claim(e, t) : e \in own},
              ok |-> TRUE, msg |-> "Claim refreshed",
              holder |-> NoUser, claimed_by |-> u]
        ELSE [claims |-> c1, ok |-> FALSE, msg |-> "Claimed by",
              holder |-> NoUser, claimed_by |-> NoUser]
api_heartbeat(cl, t, f, u) == try_claim(cl, t, f, u, FALSE)

\* POST /api/image/<filename>/release
api_release(cl, f, u) == release_claim(cl, f, u)

\* The instants of the requests: those of RequestTimes, and one timeout and
\* one timeout and a minute after a claim taken over at the first instant
\* beyond the override window.
HeartbeatTimes ==
    RequestTimes \cup
        {CLAIM_OVERRIDE_MINUTES + 1 + CLAIM_TIMEOUT_MINUTES + d : d \in 0..1}

\* The body of the review requests of this specification.
ApprovedData == ReviewData({"approved"}, {}, {})

\* The server at an instant at which no claim is in the table, or user 1 has
\* held item 1 since instant 0 and refreshed it last at some earlier instant
\* or at this one.
HeartbeatInit ==
    /\ now \in HeartbeatTimes
    /\ \/ claims = {}
       \/ \E hb \in HeartbeatTimes :
              /\ hb <= now
              /\ claims = {ClaimEntry(1, 1, 0, hb)}
    /\ pre = claims
    /\ last = NoCall
    /\ images = FreshImages
    /\ disk = FreshImages
    /\ threads = <<>>
    /\ served = 0
    /\ before = images
    /\ view_history = NoHistory
    /\ review_summary = save_data(FreshSummary, images)

\* Two requests are followed: the one before the last is kept in last.prior.
TwoRequests == last.prior.op = "none"

HbHeartbeat ==
    \E t \in HeartbeatTimes, f \in Files, u \in Users :
        LET r == api_heartbeat(claims, t, f, u)
        IN  /\ TwoRequests
            /\ t >= now
            /\ now' = t
            /\ claims' = r.claims
            /\ pre' = claims
            /\ before' = images
            /\ last' = [NoCall EXCEPT !.op = "heartbeat", !.file = f, !.user = u,
                            !.ok = r.ok, !.msg = r.msg, !.holder = r.holder,
                            !.claimed_by = r.claimed_by, !.code = 200,
                            !.prior = Prior(last, now)]
            /\ UNCHANGED <<images, disk, threads, served, view_history,
                           review_summary>>

HbRelease ==
    \E t \in HeartbeatTimes, f \in Files, u \in Users :
        LET r == api_release(claims, f, u)
        IN  /\ TwoRequests
            /\ t >= now
            /\ now' = t
            /\ claims' = r.claims
            /\ pre' = claims
            /\ before' = images
            /\ last' = [NoCall EXCEPT !.op = "release", !.file = f, !.user = u,
                            !.ok = r.ok, !.code = 200, !.prior = Prior(last, now)]
            /\ UNCHANGED <<images, disk, threads, served, view_history,
                           review_summary>>

HbReviewImage ==
    \E t \in HeartbeatTimes, f \in Files, u \in Users :
        LET r == api_review_image(images, claims, disk, t, f, ApprovedData, u)
        IN  /\ TwoRequests
            /\ t >= now
            /\ now' = t
            /\ images' = r.images
            /\ claims' = r.claims
            /\ disk' = r.disk
            /\ review_summary' = summary_after(review_summary, r.images, r.code)
            /\ pre' = claims
            /\ before' = images
            /\ last' = [NoCall EXCEPT !.op = "review", !.file = f, !.user = u,
                            !.data = ApprovedData, !.ok = (r.code = 200),
                            !.code = r.code, !.prior = Prior(last, now)]
            /\ UNCHANGED <<threads, served, view_history>>

HeartbeatNext ==
    \/ HbHeartbeat
    \/ HbRelease
    \/ HbReviewImage

SpecHeartbeat == HeartbeatInit /\ [][HeartbeatNext]_vars

\* The entries of the table under the key of the last request.
EntryOfLast == {c \in claims : c.file = last.file}

\* The request before the last one took the claim on the same item over from
\* the caller of the last one.
TakenFromCaller ==
    /\ last.prior.op = "heartbeat"
    /\ last.prior.ok
    /\ last.prior.file = last.file
    /\ last.prior.holder = last.user

\* C31: a refresh by the holder changes the heartbeat of its claim and never
\* claimed_at, so the override window runs from the original grant: an
\* unforced acquire by another user is granted once now - claimed_at exceeds
\* the override window, whenever the holder refreshed last, and the heartbeat
\* the dispossessed holder sends next, while the new claim is live, is denied
\* and leaves the new claim as it was granted.
C31_OverrideFromOriginalGrant ==
    last.op = "heartbeat" =>
        /\ \A e \in pre :
               (e.file = last.file /\ Live(e, now)) =>
                   /\ e.user = last.user =>
                          EntryOfLast = {ClaimEntry(e.file, e.user, e.claimed_at, now)}
                   /\ (e.user # last.user
                          /\ now - e.claimed_at > CLAIM_OVERRIDE_MINUTES) =>
                          /\ last.ok
                          /\ EntryOfLast = {ClaimEntry(e.file, last.user, now, now)}
        /\ (TakenFromCaller /\ now - last.prior.at <= CLAIM_TIMEOUT_MINUTES) =>
               /\ ~last.ok
               /\ last.claimed_by = last.prior.user
               /\ EntryOfLast = {ClaimEntry(last.file, last.prior.user,
                                            last.prior.at, last.prior.at)}

\* User 1 held item 1 from instant 0; another user's heartbeat took the claim
\* over beyond the override window, and user 1's heartbeat a timeout later
\* is denied.
C31_Witness ==
    /\ last.op = "heartbeat"
    /\ ~last.ok
    /\ last.user = 1
    /\ TakenFromCaller
    /\ last.prior.at = CLAIM_OVERRIDE_MINUTES + 1
    /\ now = last.prior.at + CLAIM_TIMEOUT_MINUTES

\* The request before the last one, by the same user on the same item,
\* released the claim: a release that removed it, or an accepted finalize.
ReleasedByCaller ==
    /\ last.prior.op \in {"release", "review"}
    /\ last.prior.ok
    /\ last.prior.file = last.file
    /\ last.prior.user = last.user

HeldByAnother ==
    \E e \in pre : e.file = last.file /\ e.user # last.user /\ Live(e, now)

\* The caller held a live claim on the item of the last request.
HeldByCaller ==
    \E e \in pre : e.file = last.file /\ e.user = last.user /\ Live(e, now)

C33_OthersClaimedItemsUntouched ==
    last.op \in {"review", "link", "unlink"} =>
        \A g \in Items :
            (\E e \in pre : e.file = g /\ e.user # last.user /\ Live(e, now))
                => images[g].review = before[g].review

\* C35: an unlink request takes effect only when its caller holds a live
\* claim on the item it names: when the two items are in the store and the
\* caller holds the claim the request is accepted, and when the caller holds
\* no live claim on the item (unclaimed, expired or held by another user) it
\* is rejected and the store, both linked lists included, is as it was.
C35_UnlinkNeedsOwnClaim ==
    last.op = "unlink" =>
        /\ (HeldByCaller /\ last.file \in Items /\ last.target \in Items)
               => last.code = 200
        /\ ~HeldByCaller =>
               /\ last.code # 200
               /\ images = before
               /\ disk = before
        /\ (~HeldByCaller /\ last.file \in Items /\ last.target \in Items)
               => last.code = 403

\* An unlink of two items that list each other, by a user whose claim on the
\* first has expired, is rejected.
C35_Witness ==
    /\ last.op = "unlink"
    /\ last.code = 403
    /\ last.file = 1
    /\ last.target = 2
    /\ 2 \in Range(images[1].review.linked_images)
    /\ 1 \in Range(images[2].review.linked_images)
    /\ \E e \in pre : e.file = 1 /\ e.user = last.user /\ ~Live(e, now)

\* The items of the last link request.
Pair == {last.file, last.target}

\* An item of the pair was held by another user than the caller, live and
\* within the override window, when the request arrived.
PairHeldByAnother ==
    \E e \in pre :
        /\ e.file \in Pair
        /\ e.user # last.user
        /\ Live(e, now)
        /\ now - e.claimed_at <= CLAIM_OVERRIDE_MINUTES

\* C36: a link request for two items of the store first claims both for the
\* caller: when another user holds one of them within the override window
\* the request fails and the store, both linked lists included, is as it
\* was; otherwise it succeeds, and then the table holds, for each of the two
\* items, a claim of the caller with its heartbeat at the instant of the
\* request.
C36_LinkClaimsBoth ==
    (last.op = "link" /\ last.file \in Items /\ last.target \in Items) =>
        IF PairHeldByAnother
        THEN /\ last.code = 409
             /\ images = before
             /\ disk = before
        ELSE /\ last.code = 200
             /\ \A f \in Pair :
                    {[user |-> c.user, heartbeat |-> c.heartbeat] :
                         c \in {x \in claims : x.file = f}}
                        = {[user |-> last.user, heartbeat |-> now]}

\* A link of item 2, which nobody holds, to item 1, which another user has
\* held for longer than the override window and refreshed at this instant:
\* the caller holds both.
C36_Witness ==
    /\ last.op = "link"
    /\ last.code = 200
    /\ last.file = 2
    /\ last.target = 1
    /\ \E e \in pre : e.file = 1 /\ e.user # last.user /\ e.heartbeat = now
    /\ \A c \in claims : c.file \in Pair => c.user = last.user
    /\ 2 \in Range(images[1].review.linked_images)
    /\ 2 \notin Range(before[1].review.linked_images)

\* ------------------------------- a finalize and an acquire in flight
\* The requests: finalize requests with a terminal status, and heartbeats.
RaceRequests ==
    {Thread("review", f, NoFile, u, ReviewData({st}, {}, {})) :
        f \in Files, u \in Users, st \in {"approved", "excluded"}}
    \cup {Thread("heartbeat", f, NoFile, u, ReviewData({}, {}, {})) :
        f \in Files, u \in Users}

\* No claim is in the table, or user 1 holds item 1.
RaceInit ==
    /\ now = 0
    /\ claims \in {{}, {ClaimEntry(1, 1, 0, 0)}}
    /\ pre = claims
    /\ last = NoCall
    /\ images = FreshImages
    /\ disk = FreshImages
    /\ threads \in [Threads -> RaceRequests]
    /\ served = 0
    /\ before = images
    /\ view_history = NoHistory
    /\ review_summary = save_data(FreshSummary, images)

\* Lines 624-634: try_claim runs under claims_lock, in one step.
RaceHeartbeat ==
    \E i \in Threads :
        LET th == threads[i]
            r == api_heartbeat(claims, now, th.file, th.user)
        IN  /\ At(i, "heartbeat", "start")
            /\ claims' = r.claims
            /\ threads' = respond(i, 200)
            /\ UNCHANGED <<images, disk, review_summary, concFrame>>

RaceNext ==
    \/ ReviewStart
    \/ ReviewWriteStatus
    \/ ReviewWriteLinked
    \/ ReviewWriteReviewer
    \/ ReviewBackLink
    \/ ReviewPropagate
    \/ ReviewRelease
    \/ ReviewSave
    \/ RaceHeartbeat

SpecRace == RaceInit /\ [][RaceNext]_vars

\* A finalize request that has written to the record of its item.
Wrote(i) ==
    /\ threads[i].op = "review"
    /\ \/ threads[i].pc \in {"linked", "reviewer", "backlink", "propagate",
                              "release", "save"}
       \/ threads[i].pc = "done" /\ threads[i].code = 200

\* The table records another user than the caller of request i as holder of
\* its item: that user was granted the claim after request i read the table.
GrantedToAnother(i) ==
    \E c \in claims : c.file = threads[i].file /\ c.user # threads[i].user

\* Request i writes the status of its item in this step.
WritesRecord(i) ==
    /\ At(i, "review", "status")
    /\ threads'[i].pc = "linked"

\* C34: the claim check and the record write of finalize are atomic with
\* respect to claim acquisition: no finalize writes the record of its item
\* in a step that finds the claim on the item granted to another user, and
\* no two finalize requests of different users on the same item both write
\* its record.
C34_CheckAndWriteAtomic ==
    /\ [][\A i \in Threads : WritesRecord(i) => ~GrantedToAnother(i)]_vars
    /\ [](\A i, j \in Threads :
              (threads[i].file = threads[j].file
                  /\ threads[i].user # threads[j].user)
                  => ~(Wrote(i) /\ Wrote(j)))

\* ------------------------------------------------ the all-resolved report
\* Statuses a review request can carry besides the four: the one
\* prepare_review_data.py names for a discarded image, and the empty string.
EmptyStatus == ""
OtherStatuses == {"discarded", EmptyStatus}

\* not status: None and the empty string are false.
not_status(status) == status \in {NoStatus, EmptyStatus}

\* is_all_resolved(): no image has `not status and not mo_obs_id`.
is_all_resolved(imgs) ==
    \A f \in DOMAIN imgs :
        ~(not_status(imgs[f].review.status)
            /\ imgs[f].review.mo_observation_id = NoObservation)

ReportReviewRequests ==
    {ReviewData({st}, {}, {}) : st \in OtherStatuses \cup {"approved"}}

ReportInit ==
    /\ now = NavNow
    /\ \E kinds \in [Items -> ItemKinds] :
           images = [f \in Items |-> Image(DefaultPriority, StoreReview(kinds[f]))]
    /\ claims \in ClaimShapes
    /\ pre = claims
    /\ last = NoCall
    /\ disk = images
    /\ threads = <<>>
    /\ served = 0
    /\ before = images
    /\ view_history = NoHistory
    /\ review_summary = save_data(FreshSummary, images)

ReportReviewImage ==
    \E f \in Keys, u \in Users, data \in ReportReviewRequests :
        LET r == api_review_image(images, claims, disk, now, f, data, u)
        IN  /\ last.op = "none"
            /\ images' = r.images
            /\ claims' = r.claims
            /\ disk' = r.disk
            /\ review_summary' = summary_after(review_summary, r.images, r.code)
            /\ pre' = claims
            /\ before' = images
            /\ last' = [NoCall EXCEPT !.op = "review", !.file = f, !.user = u,
                            !.data = data, !.ok = (r.code = 200), !.code = r.code]
            /\ UNCHANGED storeFrame

\* Line 604 of api_navigation: all_resolved = is_all_resolved().
CallIsAllResolved ==
    /\ last.op # "all_resolved"
    /\ pre' = claims
    /\ before' = images
    /\ last' = [NoCall EXCEPT !.op = "all_resolved", !.ok = is_all_resolved(images)]
    /\ UNCHANGED <<now, claims, images, disk, threads, served, view_history,
                   review_summary>>

ReportNext ==
    \/ ReportReviewImage
    \/ CallIsAllResolved

SpecReport == ReportInit /\ [][ReportNext]_vars

\* What next_unresolved answers user u who is at cur, nothing excluded.
NextUnresolved(u, cur) ==
    get_next_unreviewed_for_user(images, claims, now, u, cur, {}).found

\* C38: the all-resolved report and next_unresolved agree on what resolved
\* means: when the report is true, next_unresolved returns none for every
\* user and every current; when it is false and no claim is live,
\* next_unresolved with no current and nothing excluded returns an item.
C38_ResolvedAgree ==
    last.op = "all_resolved" =>
        /\ last.ok =>
               \A u \in Users, cur \in Keys \cup {NoFile} :
                   NextUnresolved(u, cur) = NoFile
        /\ (~last.ok /\ \A c \in claims : ~Live(c, now)) =>
               \A u \in Users : NextUnresolved(u, NoFile) \in Items

\* ------------------------------------------------ a single reviewer at work
\* User 1 works through the store: it asks for the next unresolved image
\* from the image it is at, loads the image returned for review, which
\* claims it, and posts a review with a terminal status.  The image it is at
\* is the first of its view history.
Reviewer1 == 1

position(vh, u) == IF vh[u] = <<>> THEN NoFile ELSE Head(vh[u])

\* The server has just started: load_data has not run yet, and the claim
\* table and the view histories, which are kept in memory only, are empty.
ProgressInit ==
    /\ now = NavNow
    /\ images = FreshImages
    /\ claims = {}
    /\ pre = claims
    /\ last = NoCall
    /\ disk = images
    /\ threads = <<>>
    /\ served = 0
    /\ before = images
    /\ view_history = NoHistory
    /\ review_summary = save_data(FreshSummary, images)

\* load_data(): the snapshot earlier runs of the server have left, in which
\* some items are approved and the items are linked in one of the shapes.
ProgressLoadData ==
    \E done \in SUBSET Items, links \in LinkShapes :
        LET loaded == [f \in Items |->
                          Image(DefaultPriority,
                                [StoreReview(IF f \in done THEN "approved" ELSE "unset")
                                    EXCEPT !.linked_images = links[f]])]
        IN  /\ last.op = "none"
            /\ images' = loaded
            /\ disk' = loaded
            /\ review_summary' = save_data(FreshSummary, loaded)
            /\ before' = loaded
            /\ pre' = claims
            /\ last' = [NoCall EXCEPT !.op = "load_data", !.ok = TRUE]
            /\ UNCHANGED <<now, claims, threads, served, view_history>>

\* GET /api/image/<filename>?add_to_history=true: the reviewer first looks
\* at an image that is resolved already.
ProgressVisit ==
    \E f \in Items :
        LET r == try_claim(claims, now, f, Reviewer1, FALSE)
        IN  /\ last.op = "load_data"
            /\ resolved(images[f].review)
            /\ view_history' = add_to_view_history(view_history, f, Reviewer1)
            /\ claims' = r.claims
            /\ pre' = claims
            /\ before' = images
            /\ last' = [NoCall EXCEPT !.op = "visit", !.user = Reviewer1, !.file = f,
                            !.ok = r.ok, !.msg = r.msg, !.claimed_by = r.claimed_by,
                            !.code = 200]
            /\ UNCHANGED <<now, images, disk, threads, served, review_summary>>

\* get_next_unreviewed_for_user(username, current_filename=filename)
ProgressAsk ==
    LET cur == position(view_history, Reviewer1)
        r == get_next_unreviewed_for_user(images, claims, now, Reviewer1, cur, {})
    IN  /\ last.op \in {"load_data", "visit", "review"}
        /\ claims' = r.claims
        /\ pre' = claims
        /\ before' = images
        /\ last' = [NoCall EXCEPT !.op = "next_unreviewed", !.user = Reviewer1,
                        !.file = cur, !.found = r.found, !.ok = TRUE]
        /\ UNCHANGED <<now, images, disk, threads, served, view_history,
                       review_summary>>

\* GET /api/image/<filename>?add_to_history=true for the image returned.
ProgressLoad ==
    LET f == last.found
        r == try_claim(claims, now, f, Reviewer1, FALSE)
    IN  /\ last.op = "next_unreviewed"
        /\ f # NoFile
        /\ view_history' = add_to_view_history(view_history, f, Reviewer1)
        /\ claims' = r.claims
        /\ pre' = claims
        /\ before' = images
        /\ last' = [NoCall EXCEPT !.op = "image", !.user = Reviewer1, !.file = f,
                        !.ok = r.ok, !.msg = r.msg, !.claimed_by = r.claimed_by,
                        !.code = 200]
        /\ UNCHANGED <<now, images, disk, threads, served, review_summary>>

\* POST /api/image/<filename>/review with a terminal status.
ProgressFinalize ==
    \E st \in RESOLVED_STATUSES :
        LET data == ReviewData({st}, {}, {})
            r == api_review_image(images, claims, disk, now, last.file, data,
                                  Reviewer1)
        IN  /\ last.op = "image"
            /\ images' = r.images
            /\ claims' = r.claims
            /\ disk' = r.disk
            /\ review_summary' = summary_after(review_summary, r.images, r.code)
            /\ pre' = claims
            /\ before' = images
            /\ last' = [NoCall EXCEPT !.op = "review", !.file = last.file,
                            !.user = Reviewer1, !.data = data,
                            !.ok = (r.code = 200), !.code = r.code]
            /\ UNCHANGED <<now, threads, served, view_history>>

ProgressNext ==
    \/ ProgressLoadData
    \/ ProgressVisit
    \/ ProgressAsk
    \/ ProgressLoad
    \/ ProgressFinalize

SpecProgress == ProgressInit /\ [][ProgressNext]_vars

\* The reviewer goes on as long as there is a step to take.
SpecProgressFair == SpecProgress /\ WF_vars(ProgressNext)

\* Every item is resolved and next_unresolved has returned none.
ReviewerDone ==
    /\ \A f \in Items : IsResolvedItem(f)
    /\ last.op = "next_unreviewed"
    /\ last.found = NoFile

\* C39: a single reviewer who keeps asking for the next unresolved item,
\* acquires the item returned and finalizes it with a terminal status, while
\* no other user holds a live claim, reaches after finitely many rounds a
\* state in which every item is resolved and next_unresolved returns none.
C39_SingleReviewerProgress == <>ReviewerDone

\* The reviewer has finalized every item itself, the last one being first
\* in the canonical order, and is told there is none left.
C39_Witness ==
    /\ ReviewerDone
    /\ \A f \in Items : images[f].review.reviewer = Reviewer(Reviewer1, NoFile)
    /\ \A f \in Items : before[f].review.status # NoStatus
    /\ Len(view_history[Reviewer1]) = NumItems
    /\ position(view_history, Reviewer1) = 1

====
